---- MODULE Spec2Model ----
(***************************************************************************)
(* Job orchestration of the coloring studio (src/App.tsx):                 *)
(*   - runConcurrentTasks: the bounded-concurrency, paced task runner;     *)
(*   - generateImageSafe: the retrying job executor;                       *)
(*   - the handlers that call them and the failed-job / image stores of    *)
(*     src/services/storageService.ts.                                      *)
(*                                                                         *)
(* JavaScript runs the code between two awaits without interruption, so    *)
(* one action is one such stretch: it starts when a timer, a network call, *)
(* a storage request or a click completes and ends at the next await.      *)
(* Promise continuations (microtasks) run before the next timer or click   *)
(* and are part of the step that settles the promise.                      *)
(***************************************************************************)
EXTENDS Integers, Sequences, FiniteSets, TLC

----------------------------------------------------------------------------
(* Bounds of the model *)

\* longest task list handed to runConcurrentTasks
MaxTasks == 3
\* largest concurrency argument tried (the application always passes 2)
MaxConcurrency == 3
\* handler invocations per session
MaxRuns == 2
\* clicks on Stop per session
MaxStopClicks == 1
\* generation calls per session; one execution makes up to MAX_RETRIES + 1
MaxCalls == 4
\* executions of generateImageSafe begun by tasks in a session in which the
\* calls return
MaxJobs == 2
\* clicks on Clear List whose storage request is still under way
MaxPendingClears == 2
\* rate-limited generation calls of a session of batch work
MaxBackoffs == 2
\* the largest value typed in the batch-count box
MaxBatchCount == 2
\* reference images uploaded at one time
MaxUploads == 2
\* executions of generateImageSafe in a session of New Generation
MaxGenerateJobs == 4
\* invocations of the gallery's delete handlers waiting for the store
MaxImageOps == 1

----------------------------------------------------------------------------
(* Program constants *)

\* src/App.tsx:297
MAX_RETRIES == 3
\* src/App.tsx:354, milliseconds
BACKOFF_UNIT_MS == 10000
\* src/App.tsx:438, 485, 561, 637, 674, 711: the concurrency every handler asks for
BATCH_CONCURRENCY == 2

----------------------------------------------------------------------------
(* Strings are sequences of words; String.prototype.includes is the search *)
(* for a contiguous run of words.                                          *)

Includes(msg, sub) ==
    \E i \in 0..(Len(msg) - Len(sub)) :
        \A k \in 1..Len(sub) : msg[i + k] = sub[k]

\* error messages the generation call is made to throw
Msg429 == <<"429", "Too", "many", "requests">>
MsgTooMany == <<"Too", "many", "requests">>
Msg403 == <<"403", "API", "key", "not", "valid">>
MsgNotFound == <<"Requested", "entity", "was", "not", "found">>
MsgOther == <<"network", "error">>
ErrorMessages == {Msg429, MsgTooMany, Msg403, MsgNotFound, MsgOther}
\* messages that name a permission failure and a rate limit at once
MixedMessages == {<<"403", "Too", "many", "requests">>,
                  <<"429", "API", "key", "not", "valid">>}
\* the messages thrown at the jobs of a batch
BatchErrorMessages == {MsgOther}

\* App.tsx:352
IsRateLimited(errorMsg) ==
    Includes(errorMsg, <<"429">>) \/ Includes(errorMsg, <<"Too", "many", "requests">>)

\* only the not-found message recognised
IsPermissionDeniedNotFoundOnly(errorMsg) ==
    Includes(errorMsg, <<"Requested", "entity", "was", "not", "found">>)

\* App.tsx:367
IsPermissionDenied(errorMsg) ==
    \/ Includes(errorMsg, <<"Requested", "entity", "was", "not", "found">>)
    \/ Includes(errorMsg, <<"403">>)
    \/ Includes(errorMsg, <<"API", "key", "not", "valid">>)

----------------------------------------------------------------------------
(* Records *)

\* App.tsx:62-73
DEFAULT_CONFIG ==
    [model |-> "gemini-2.5-flash-image", prompt |-> <<>>, style |-> "trung-default",
     printSize |-> "SQUARE_8x8", colorMode |-> "bw", resolution |-> "1k",
     batchCount |-> 1, useFrame |-> FALSE, frameStyle |-> "SIMPLE",
     selectedPaletteId |-> "null"]

\* a GeneratedImage (types.ts) left in the store by an earlier session
StoredImage ==
    [id |-> <<"img", 0>>, url |-> "data:0", prompt |-> <<"cat">>, timestamp |-> 0,
     resolution |-> "2k", printSize |-> "LETTER"]

\* a FailedJob (types.ts) left in the store by an earlier session
StoredFailedJob ==
    [id |-> <<"fail", 0>>, timestamp |-> 0, error |-> Msg429,
     jobConfig |-> [prompt |-> <<"owl">>, printSize |-> "LETTER", seed |-> 303,
                    style |-> "trung-default", colorMode |-> "color",
                    resolution |-> "4k", useFrame |-> TRUE, frameStyle |-> "DOUBLE",
                    referenceImages |-> <<"data:0">>, isEditing |-> TRUE,
                    transformType |-> "colorize", selectedPaletteId |-> "wc-1"]]

\* a second FailedJob of an earlier session
OlderStoredFailedJob ==
    [id |-> <<"fail", -1>>, timestamp |-> -1, error |-> MsgOther,
     jobConfig |-> [prompt |-> <<"fox">>, printSize |-> "A4", seed |-> 404,
                    style |-> "trung-default", colorMode |-> "bw",
                    resolution |-> "1k", useFrame |-> FALSE, frameStyle |-> "SIMPLE",
                    referenceImages |-> <<>>, isEditing |-> FALSE,
                    transformType |-> "undefined", selectedPaletteId |-> "null"]]

\* a second GeneratedImage of an earlier session
OlderStoredImage ==
    [id |-> <<"img", -1>>, url |-> "data:-1", prompt |-> <<"bird">>, timestamp |-> -1,
     resolution |-> "1k", printSize |-> "A4"]

\* what the prompt box can hold when a session of batch work begins: the
\* single prompt config.prompt and the list batchPrompts (Controls.tsx:638-649)
PromptBoxes ==
    {[prompt |-> <<" ">>, batchPrompts |-> <<>>],
     [prompt |-> <<"fox">>, batchPrompts |-> <<>>],
     [prompt |-> <<" ">>, batchPrompts |-> <<<<"fox">>, <<"owl">>>>]}

\* the resolutions of the Upscale buttons tried (Controls.tsx:249-250)
UpscaleTargets == {"4k"}

\* the images whose checkbox is clicked (Gallery.tsx:45-48)
ToggleIds == {<<"img", 0>>}

\* values of Math.floor(Math.random() * 1000000000), App.tsx:579
Seeds == {101}
\* prompts typed into the edit box of the modal
EditPrompts == {<<"dog">>}
\* data URIs returned by generateSingleImage
Urls == {"data:1"}

\* String.prototype.trim on a sequence of words in which " " is white space
RECURSIVE TrimStart(_)
TrimStart(p) == IF p # <<>> /\ Head(p) = " " THEN TrimStart(Tail(p)) ELSE p

RECURSIVE TrimEnd(_)
TrimEnd(p) ==
    IF p # <<>> /\ p[Len(p)] = " " THEN TrimEnd(SubSeq(p, 1, Len(p) - 1)) ELSE p

Trim(p) == TrimEnd(TrimStart(p))

----------------------------------------------------------------------------
(* Array helpers *)

Range(s) == {s[i] : i \in DOMAIN s}

\* Array.prototype.indexOf, 0-based, -1 when absent
IndexOf(arr, x) ==
    IF \E i \in DOMAIN arr : arr[i] = x
      THEN (CHOOSE i \in DOMAIN arr : arr[i] = x /\ \A j \in 1..(i - 1) : arr[j] # x) - 1
      ELSE -1

\* Array.prototype.splice(start, 1): a negative start counts from the end
Splice1(arr, start) ==
    LET n == Len(arr)
        s == IF start < 0 THEN (IF n + start < 0 THEN 0 ELSE n + start) ELSE start
    IN  IF s >= n THEN arr
        ELSE [i \in 1..(n - 1) |-> IF i <= s THEN arr[i] ELSE arr[i + 1]]

----------------------------------------------------------------------------
VARIABLES
    \* ---- application state (App.tsx:141-172)
    stopGenerationRef,  \* stopGenerationRef.current
    isGenerating,
    hasApiKey,
    manualApiKey,       \* TRUE when a manual key is stored (non-empty string)
    aistudio,           \* TRUE when window.aistudio exists
    selectedImage,      \* the image open in the modal, <<>> for null
    config,             \* the generation config
    error,              \* banner error, "none" for null
    logs,               \* newest first
    images,             \* in-memory history, newest first
    failedJobs,         \* in-memory failed list, newest first
    dbImages,           \* object store 'images', keyed by id
    dbFailed,           \* object store 'failed_jobs', keyed by id
    clock,              \* Date.now(), read as a strictly increasing counter
    runs,               \* handler invocations so far
    stopClicks,         \* clicks on Stop so far
    \* ---- one run of runConcurrentTasks (App.tsx:268-280)
    rpc,                \* "idle" | "pacing" | "racing" | "joining"
    runState,           \* "none" | "pending" | "resolved" | "rejected"
    numTasks,           \* tasks.length
    concurrency,
    tidx,               \* position of the for..of loop, 1-based
    executing,          \* the array 'executing'; promise e of task t is t
    awaited,            \* the array handed to Promise.race / Promise.all
    tstatus,            \* task -> "pending" | "running" | "fulfilled" | "rejected"
    startOrder,         \* tasks in the order the runner invoked them
    settleOrder,        \* tasks in the order they settled
    stopAt,             \* <<K>>: K tasks had been started when Stop was first
                        \* clicked in this run; <<>> while it has not been
    stopPhase,          \* <<rpc>> at that click
    \* ---- one execution of generateImageSafe and the handler awaiting it
    hpc,                \* "idle" | "calling" | "backoff" | "selectKey" |
                        \* "saveFailed" | "addImage" | "delFailed"
    handler,            \* "none" | "retry" | "edit"
    target,             \* the FailedJob retried or the image edited
    args,               \* the arguments of generateImageSafe
    retries,
    errorMsg,           \* errorMsg of the catch block, <<>> outside it
    pending,            \* the record handed to the storage call in progress
    execResult,         \* "none" | "value" | "null" | "threw"
    calls,              \* generateSingleImage calls dispatched in the session
    reauths,            \* times this execution invalidated the key flag
    waits,              \* backoff waits of this execution, in order
    outcomes,           \* outcomes of this execution's calls, in order, each
                        \* with the retry counter it met
    atEntry,            \* failed lists and counters when the execution began
    \* ---- the batch handlers, their runs of runConcurrentTasks and their jobs
    selectedIds,        \* ids of the images ticked in the gallery
    batchPrompts,       \* the prompts of a multi-line prompt box
    batches,            \* one record per invocation of a batch handler
    jobs,               \* one record per execution of generateImageSafe a
                        \* batch task began
    clearing,           \* invocations of handleClearFailedJobs still waiting
                        \* for the store
    dismissing,         \* ids of the failed jobs whose Dismiss handler is
                        \* waiting for the store
    uploadedImages,     \* the reference images uploaded in the side panel
    imageOps            \* the invocations of handleClearHistory,
                        \* handleDeleteSelected and handleDeleteImage that
                        \* are waiting for the store

appVars == <<stopGenerationRef, isGenerating, hasApiKey, manualApiKey, aistudio,
             selectedImage, config, error, logs, images, failedJobs, dbImages,
             dbFailed, clock, runs, stopClicks>>
execVars == <<hpc, handler, target, args, retries, errorMsg, pending, execResult,
              calls, reauths, waits, outcomes, atEntry>>
runnerVars == <<rpc, runState, numTasks, concurrency, tidx, executing, awaited,
                tstatus, startOrder, settleOrder, stopAt, stopPhase>>
batchVars == <<selectedIds, batchPrompts, batches, jobs, clearing, dismissing,
               uploadedImages, imageOps>>
vars == <<appVars, runnerVars, execVars, batchVars>>

Settled == {"fulfilled", "rejected"}

\* App.tsx:208-210; the wall-clock text of an entry is not modelled
addLog(message, type) == <<[message |-> message, type |-> type]>> \o logs

----------------------------------------------------------------------------
(* runConcurrentTasks, App.tsx:268-280 *)

\* the list walked from its end
TaskAtReversed(i, n) == n + 1 - i

\* App.tsx:270, for (const task of tasks): the i-th iteration takes tasks[i]
TaskAt(i, n) == i

\* the flag never read by the runner
ShouldBreakNever(stop) == FALSE

\* App.tsx:271
ShouldBreak(stop) == stop

\* an off-by-one ceiling
RaceNeededAbove(len, c) == len > c

\* App.tsx:277
RaceNeeded(len, c) == len >= c

\* App.tsx:275, the callback of p.then: executing.splice(executing.indexOf(e), 1)
OnFulfilled(ex, e) == Splice1(ex, IndexOf(ex, e))

\* the .catch left out: a rejected task stays in the array
OnRejectedUncaught(ex, e) == ex

\* App.tsx:275, the callback of .catch: the same splice
OnRejected(ex, e) == Splice1(ex, IndexOf(ex, e))

\* Promise.all in the place of Promise.race
RaceWaitsForAll(arr, st) == \A e \in Range(arr) : st[e] \in Settled

\* App.tsx:277, Promise.race(executing) resolves when the first promise of
\* the array has settled
PromiseRaceSettled(arr, st) == \E e \in Range(arr) : st[e] \in Settled

\* Promise.race in the place of Promise.all
PromiseAnySettled(arr, st) == arr = <<>> \/ \E e \in Range(arr) : st[e] \in Settled

\* App.tsx:279, Promise.all(executing) resolves when every promise of the
\* array has; at once for the empty array
PromiseAllSettled(arr, st) == \A e \in Range(arr) : st[e] \in Settled

\* the runner suspends at an await (or stays as it is)
RunnerAwaits(pc, i, aw) ==
    /\ rpc' = pc
    /\ tidx' = i
    /\ awaited' = aw
    /\ UNCHANGED <<runState, appVars>>

\* App.tsx:279 resolved, then the rest of handleGenerate, App.tsx:486-499
FinishRun(i, aw) ==
    /\ rpc' = "idle"
    /\ tidx' = i
    /\ awaited' = aw
    /\ runState' = "resolved"
    /\ isGenerating' = FALSE
    /\ stopGenerationRef' = FALSE
    /\ logs' = addLog(<<"Finished.">>, "info")
    /\ UNCHANGED <<hasApiKey, manualApiKey, aistudio, selectedImage, config, error,
                   images, failedJobs, dbImages, dbFailed, clock, runs, stopClicks>>

\* App.tsx:270-273 and 279: the head of iteration i, reached with the array
\* 'executing' equal to ex and the task states st
LoopHead(i, ex, st) ==
    IF i > numTasks \/ ShouldBreak(stopGenerationRef)
      THEN IF PromiseAllSettled(ex, st)
             THEN FinishRun(i, ex)
             ELSE RunnerAwaits("joining", i, ex)
      ELSE RunnerAwaits("pacing", i, <<>>)

\* App.tsx:406-411 and 445-485: Generate with an empty selection builds n
\* tasks and hands them to the runner, which reaches its first await
HandleGenerate(n, c) ==
    /\ hasApiKey
    /\ ~isGenerating
    /\ rpc = "idle"
    /\ hpc = "idle"
    /\ runs < MaxRuns
    /\ runs' = runs + 1
    /\ isGenerating' = TRUE
    /\ stopGenerationRef' = FALSE
    /\ error' = "none"
    /\ logs' = addLog(<<"Queueing", n, "tasks (2 threads)...">>, "info")
    /\ numTasks' = n
    /\ concurrency' = c
    /\ tstatus' = [t \in 1..MaxTasks |-> "pending"]
    /\ executing' = <<>>
    /\ startOrder' = <<>>
    /\ settleOrder' = <<>>
    /\ stopAt' = <<>>
    /\ stopPhase' = <<>>
    /\ runState' = "pending"
    /\ rpc' = "pacing"
    /\ tidx' = 1
    /\ awaited' = <<>>
    /\ UNCHANGED <<hasApiKey, manualApiKey, aistudio, selectedImage, config, images,
                   failedJobs, dbImages, dbFailed, clock, stopClicks>>
    /\ UNCHANGED <<execVars, batchVars>>

\* App.tsx:273-278: the pacing timer fires; the task is invoked (its
\* microtask runs before anything else) and the runner reaches its next await
PacingElapsed ==
    /\ rpc = "pacing"
    /\ LET t == TaskAt(tidx, numTasks)
           ex == Append(executing, t)
           st == [tstatus EXCEPT ![t] = "running"]
       IN  /\ tstatus' = st
           /\ startOrder' = Append(startOrder, t)
           /\ executing' = ex
           /\ IF RaceNeeded(Len(ex), concurrency)
                THEN RunnerAwaits("racing", tidx, ex)
                ELSE LoopHead(tidx + 1, ex, st)
    /\ UNCHANGED <<numTasks, concurrency, settleOrder, stopAt, stopPhase>>
    /\ UNCHANGED <<execVars, batchVars>>

\* App.tsx:275: the promise of a started task settles; its callback edits
\* 'executing', and a runner waiting on it goes on
TaskSettles(t, how) ==
    /\ t \in 1..numTasks
    /\ tstatus[t] = "running"
    /\ LET ex == IF how = "fulfilled" THEN OnFulfilled(executing, t)
                                      ELSE OnRejected(executing, t)
           st == [tstatus EXCEPT ![t] = how]
       IN  /\ tstatus' = st
           /\ executing' = ex
           /\ settleOrder' = Append(settleOrder, t)
           /\ CASE rpc = "racing" /\ PromiseRaceSettled(awaited, st) ->
                       LoopHead(tidx + 1, ex, st)
                [] rpc = "joining" /\ PromiseAllSettled(awaited, st) -> FinishRun(tidx, awaited)
                [] OTHER -> RunnerAwaits(rpc, tidx, awaited)
    /\ UNCHANGED <<numTasks, concurrency, startOrder, stopAt, stopPhase>>
    /\ UNCHANGED <<execVars, batchVars>>

TaskResolves == \E t \in 1..MaxTasks : TaskSettles(t, "fulfilled")

TaskRejects == \E t \in 1..MaxTasks : TaskSettles(t, "rejected")

\* App.tsx:212-215; the button is Stop only while isGenerating (Controls.tsx:656)
HandleStop ==
    /\ isGenerating
    /\ stopClicks < MaxStopClicks
    /\ stopClicks' = stopClicks + 1
    /\ stopGenerationRef' = TRUE
    /\ logs' = addLog(<<"Stopping generation sequence...">>, "warning")
    /\ stopAt' = IF stopAt = <<>> THEN <<Len(startOrder)>> ELSE stopAt
    /\ stopPhase' = IF stopPhase = <<>> THEN <<rpc>> ELSE stopPhase
    /\ UNCHANGED <<isGenerating, hasApiKey, manualApiKey, aistudio, selectedImage,
                   config, error, images, failedJobs, dbImages, dbFailed, clock, runs>>
    /\ UNCHANGED <<rpc, runState, numTasks, concurrency, tidx, executing, awaited,
                   tstatus, startOrder, settleOrder>>
    /\ UNCHANGED <<execVars, batchVars>>

----------------------------------------------------------------------------
(* The state a stretch of code works on, as one record, and its write-back *)

Cur ==
    [stopGenerationRef |-> stopGenerationRef, isGenerating |-> isGenerating,
     hasApiKey |-> hasApiKey, selectedImage |-> selectedImage, error |-> error,
     logs |-> logs, images |-> images, failedJobs |-> failedJobs,
     dbImages |-> dbImages, dbFailed |-> dbFailed, clock |-> clock, hpc |-> hpc,
     handler |-> handler, target |-> target, args |-> args, retries |-> retries,
     errorMsg |-> errorMsg, pending |-> pending, execResult |-> execResult,
     calls |-> calls, reauths |-> reauths, waits |-> waits,
     outcomes |-> outcomes, atEntry |-> atEntry]

Commit(s) ==
    /\ stopGenerationRef' = s.stopGenerationRef
    /\ isGenerating' = s.isGenerating
    /\ hasApiKey' = s.hasApiKey
    /\ selectedImage' = s.selectedImage
    /\ error' = s.error
    /\ logs' = s.logs
    /\ images' = s.images
    /\ failedJobs' = s.failedJobs
    /\ dbImages' = s.dbImages
    /\ dbFailed' = s.dbFailed
    /\ clock' = s.clock
    /\ hpc' = s.hpc
    /\ handler' = s.handler
    /\ target' = s.target
    /\ args' = s.args
    /\ retries' = s.retries
    /\ errorMsg' = s.errorMsg
    /\ pending' = s.pending
    /\ execResult' = s.execResult
    /\ calls' = s.calls
    /\ reauths' = s.reauths
    /\ waits' = s.waits
    /\ outcomes' = s.outcomes
    /\ atEntry' = s.atEntry
    /\ UNCHANGED <<manualApiKey, aistudio, config, stopClicks>>
    /\ UNCHANGED <<runnerVars, batchVars>>

\* App.tsx:208-210 on the record
Log(s, message, type) ==
    [s EXCEPT !.logs = <<[message |-> message, type |-> type]>> \o @]

\* IDBObjectStore.put and .delete on a store keyed by id
StorePut(store, rec) == {r \in store : r.id # rec.id} \cup {rec}

\* a delete that removes nothing
StoreDeleteNothing(store, id) == store

StoreDelete(store, id) == {r \in store : r.id # id}

----------------------------------------------------------------------------
(* The handlers around generateImageSafe: what follows its return *)

\* the finally blocks, App.tsx:530-532 and 594
Finally(s) == [s EXCEPT !.isGenerating = FALSE, !.hpc = "idle"]

\* the handlers that build a task list for runConcurrentTasks
BatchKinds == {"generate", "batchEdit", "upscale", "colorize", "decolorize", "retryAll"}

\* the async arrow function of a task returns (App.tsx:436, 478, 634, 672,
\* 709): its promise fulfils, nothing else happens
TaskReturns(s) == [s EXCEPT !.hpc = "idle"]

\* the prompt of the call recorded as it is
RecordedPromptOfCall(s) == s.args.prompt

\* the prompt recorded with the new image: App.tsx:666 (colorize), 703
\* (decolorize), 628 (upscale), and the prompt of the call elsewhere (430,
\* 473, 519, 587)
RecordedPrompt(s) ==
    CASE s.handler = "colorize" -> <<"Colorized:">> \o s.target.prompt
      [] s.handler = "decolorize" -> <<"Line", "Art:">> \o s.target.prompt
      [] s.handler = "upscale" -> s.target.prompt
      [] OTHER -> s.args.prompt

\* the resolution of the side panel recorded in every case
ResolutionOfConfig(s) == config.resolution

\* the resolution recorded with the new image: the source image's at
\* App.tsx:589, 668, 705; config.resolution at 432 and 475; the resolution of
\* the call at 521 and 630
RecordedResolution(s) ==
    CASE s.handler \in {"edit", "colorize", "decolorize"} -> s.target.resolution
      [] s.handler \in {"batchEdit", "generate"} -> config.resolution
      [] OTHER -> s.args.resolution

\* the print size recorded with the new image: the source image's at
\* App.tsx:590, 631, 669, 706; the print size of the call at 433, 476, 522
RecordedPrintSize(s) ==
    IF s.handler \in {"edit", "upscale", "colorize", "decolorize"}
      THEN s.target.printSize
      ELSE s.args.printSize

\* the GeneratedImage built by a handler or a task from the executor's
\* result (App.tsx:427-434, 470-477, 516-523, 584-591, 625-632, 663-670,
\* 700-707); addImage then awaits saveImageToDB, App.tsx:401-402
NewImage(s, url) ==
    [id |-> <<"img", s.clock>>, url |-> url, prompt |-> RecordedPrompt(s),
     timestamp |-> s.clock, resolution |-> RecordedResolution(s),
     printSize |-> RecordedPrintSize(s)]

\* a result dropped when Stop was requested during the call
ResultDroppedOnStop(stop, res) == IF stop THEN "null" ELSE res

\* App.tsx:339-343, 398: what the executor makes of the call's result; the
\* stop flag is not read again after the call
ResultOfCall(stop, res) == res

\* App.tsx:515-532 and 583-594, and the tasks at 426-436, 470-478, 624-634,
\* 662-672, 699-709: the caller resumes with the executor's result res, or
\* with its exception when res = "threw" (a task then rejects, which the
\* runner's .catch at App.tsx:275 absorbs)
AfterExecutor(s, returned, url) ==
    LET res == ResultOfCall(s.stopGenerationRef, returned)
        s1 == [s EXCEPT !.execResult = res]
    IN  CASE res = "value" ->
               [s1 EXCEPT !.hpc = "addImage", !.pending = NewImage(s, url),
                          !.clock = @ + 1]
          [] res = "null" ->
               IF s.handler \in BatchKinds THEN TaskReturns(s1) ELSE Finally(s1)
          [] res = "threw" ->
               IF s.handler = "retry"
                 THEN Finally(Log(s1, <<"Retry failed again.">>, "error"))
                 ELSE IF s.handler \in BatchKinds THEN TaskReturns(s1)
                 ELSE Finally(s1)

----------------------------------------------------------------------------
(* generateImageSafe, App.tsx:282-399 *)

\* App.tsx:302-304
ActionLabel(a) ==
    IF a.transformType = "decolorize" THEN "Decolorizing..."
    ELSE IF a.transformType = "colorize" THEN "Colorizing..."
    ELSE IF a.isEditing THEN "Editing..."
    ELSE "Generating..."

\* the flag not read by the executor
AbandonNever(stop) == FALSE

\* App.tsx:300
AbandonAtTop(stop) == stop

\* the same wait before every retry
BackoffFlat(r) == BACKOFF_UNIT_MS

\* App.tsx:354
BackoffMs(r) == BACKOFF_UNIT_MS * (r + 1)

\* only the message decides
ShouldPersistByMessage(r, msg) == ~Includes(msg, <<"429">>)

\* App.tsx:378
ShouldPersist(r, msg) == r >= MAX_RETRIES \/ ~Includes(msg, <<"429">>)

KeyInvalidBanner == "API Key Invalid or Permission Denied. Please re-enter."

\* App.tsx:296-298, entry of an execution for handler h with arguments a
Enter(s, h, tgt, a) ==
    [s EXCEPT !.handler = h, !.target = tgt, !.args = a, !.retries = 0,
              !.errorMsg = <<>>, !.pending = <<>>, !.execResult = "none",
              !.reauths = 0, !.waits = <<>>, !.outcomes = <<>>,
              !.atEntry = [failedJobs |-> s.failedJobs, dbFailed |-> s.dbFailed,
                           images |-> s.images, dbImages |-> s.dbImages,
                           calls |-> s.calls]]

\* every attempt logged as the first
AttemptEntryAlwaysFirst(r, label) == [message |-> <<label>>, type |-> "info"]

\* App.tsx:306-310: the entry logged before an attempt's call
AttemptEntry(r, label) ==
    IF r = 0 THEN [message |-> <<label>>, type |-> "info"]
    ELSE [message |-> <<"Retry", r, MAX_RETRIES, label>>, type |-> "warning"]

\* App.tsx:299-337 and 398: the head of the retry loop up to the dispatch of
\* the generation call
AttemptTop(s) ==
    IF s.retries > MAX_RETRIES
      THEN AfterExecutor(s, "null", "")
      ELSE IF AbandonAtTop(s.stopGenerationRef)
             THEN AfterExecutor(s, "null", "")
             ELSE LET e == AttemptEntry(s.retries, ActionLabel(s.args))
                      s1 == Log(s, e.message, e.type)
                  IN  [s1 EXCEPT !.hpc = "calling", !.calls = @ + 1]

\* App.tsx:377-395: the record is built and saveFailedJobToDB awaited, or the
\* loop is left
SaveStage(s) ==
    IF ShouldPersist(s.retries, s.errorMsg)
      THEN [s EXCEPT !.hpc = "saveFailed",
                     !.pending =
                        [id |-> <<"fail", s.clock>>, timestamp |-> s.clock,
                         error |-> s.errorMsg,
                         jobConfig |->
                            [prompt |-> s.args.prompt, printSize |-> s.args.printSize,
                             seed |-> s.args.seed, style |-> s.args.style,
                             colorMode |-> s.args.colorMode,
                             resolution |-> s.args.resolution,
                             useFrame |-> s.args.useFrame,
                             frameStyle |-> s.args.frameStyle,
                             referenceImages |-> s.args.referenceImages,
                             isEditing |-> s.args.isEditing,
                             transformType |-> s.args.transformType,
                             selectedPaletteId |-> config.selectedPaletteId]],
                     !.clock = @ + 1]
      ELSE AfterExecutor(s, "null", "")

\* App.tsx:345-375: the catch block up to its first await
Catch(s, msg) ==
    LET s1 == [s EXCEPT !.errorMsg = msg]
    IN  IF IsRateLimited(msg)
          THEN IF s.retries < MAX_RETRIES
                 THEN LET waitTime == BackoffMs(s.retries)
                      IN  [Log(s1, <<"Rate Limited (429). Waiting", waitTime \div 1000,
                                     "s...">>, "warning")
                              EXCEPT !.hpc = "backoff", !.waits = Append(@, waitTime)]
                 ELSE SaveStage(Log(s1, <<"Failed after", MAX_RETRIES,
                                          "retries due to rate limits.">>, "error"))
          ELSE LET s2 == Log(s1, <<"Generation failed:", msg>>, "error")
               IN  IF IsPermissionDenied(msg)
                     THEN LET s3 == [s2 EXCEPT !.hasApiKey = FALSE,
                                               !.error = KeyInvalidBanner,
                                               !.reauths = @ + 1]
                          IN  IF ~manualApiKey /\ aistudio
                                THEN [s3 EXCEPT !.hpc = "selectKey"]
                                ELSE SaveStage(s3)
                     ELSE SaveStage(s2)

Outcome(s, res) == [s EXCEPT !.outcomes = Append(@, [retries |-> s.retries, result |-> res])]

\* App.tsx:339-341: the call returned an image
GenerateReturns ==
    /\ hpc = "calling"
    /\ \E url \in Urls : Commit(AfterExecutor(Outcome(Cur, <<"ok">>), "value", url))
    /\ UNCHANGED runs

\* App.tsx:342-343 and 398: the call returned null without throwing
GenerateReturnsNull ==
    /\ hpc = "calling"
    /\ Commit(AfterExecutor(Outcome(Cur, <<"null">>), "null", ""))
    /\ UNCHANGED runs

\* App.tsx:345-396: the call threw
GenerateThrows ==
    /\ hpc = "calling"
    /\ \E msg \in ErrorMessages : Commit(Catch(Outcome(Cur, msg), msg))
    /\ UNCHANGED runs

\* the counter left as it is
RetriesKept(r) == r

\* App.tsx:357: retries++
RetriesIncremented(r) == r + 1

\* App.tsx:356-358: the backoff wait is over
BackoffElapsed ==
    /\ hpc = "backoff"
    /\ stopGenerationRef \/ calls < MaxCalls
    /\ Commit(AttemptTop([Cur EXCEPT !.retries = RetriesIncremented(@)]))
    /\ UNCHANGED runs

\* App.tsx:371-372: the key dialog of AI Studio closed
OpenSelectKeyResolves ==
    /\ hpc = "selectKey"
    /\ Commit(SaveStage([Cur EXCEPT !.hasApiKey = TRUE]))
    /\ UNCHANGED runs

\* storageService.ts:108-117 and App.tsx:389-398: the record is stored, the
\* list and the log updated, and the executor returns null
FailedJobSaved(s) ==
    LET s1 == [s EXCEPT !.dbFailed = StorePut(@, s.pending),
                        !.failedJobs = <<s.pending>> \o @]
    IN  AfterExecutor(Log(s1, <<"Saved failed job to Retry Queue.">>, "warning"),
                      "null", "")

SaveFailedJobDone ==
    /\ hpc = "saveFailed"
    /\ Commit(FailedJobSaved(Cur))
    /\ UNCHANGED runs

\* storageService.ts:40-49 and App.tsx:402-403: the image is stored and put
\* at the head of the history; then App.tsx:524 (retry), 557 (a task of
\* Retry All), 592-594 (edit), or the end of a task
ImageSaved(s) ==
    LET s1 == [s EXCEPT !.dbImages = StorePut(@, s.pending),
                        !.images = <<s.pending>> \o @]
    IN  CASE s.handler \in {"retry", "retryAll"} -> [s1 EXCEPT !.hpc = "delFailed"]
          [] s.handler \in BatchKinds \ {"retryAll"} -> TaskReturns(s1)
          [] OTHER -> Finally([s1 EXCEPT !.selectedImage = <<>>])

SaveImageDone ==
    /\ hpc = "addImage"
    /\ Commit(ImageSaved(Cur))
    /\ UNCHANGED runs

\* storageService.ts:143-152 and App.tsx:525-532
DeleteFailedJobDone ==
    /\ hpc = "delFailed"
    /\ LET s1 == [Cur EXCEPT !.dbFailed = StoreDelete(@, target.id),
                             !.failedJobs = SelectSeq(@, LAMBDA j : j.id # target.id)]
       IN  Commit(Finally(Log(s1, <<"Retry successful. Job removed from queue.">>,
                              "success")))
    /\ UNCHANGED runs

\* App.tsx:502-513; the Retry button is disabled while isGenerating (App.tsx:897).
\* The prompts of the model are shorter than the 20 characters the log keeps.
HandleRetryJob ==
    /\ hasApiKey
    /\ ~isGenerating
    /\ hpc = "idle"
    /\ rpc = "idle"
    /\ runs < MaxRuns
    /\ calls < MaxCalls
    /\ runs' = runs + 1
    /\ \E i \in DOMAIN failedJobs :
          LET job == failedJobs[i]
              cfg == job.jobConfig
              a == [prompt |-> cfg.prompt, printSize |-> cfg.printSize,
                    seed |-> cfg.seed, style |-> cfg.style,
                    colorMode |-> cfg.colorMode, resolution |-> cfg.resolution,
                    useFrame |-> cfg.useFrame, frameStyle |-> cfg.frameStyle,
                    referenceImages |-> cfg.referenceImages,
                    isEditing |-> cfg.isEditing, transformType |-> cfg.transformType]
              s1 == Log([Cur EXCEPT !.isGenerating = TRUE,
                                    !.stopGenerationRef = FALSE],
                        <<"Retrying job:", cfg.prompt, "...">>, "info")
          IN  Commit(AttemptTop(Enter(s1, "retry", job, a)))

\* App.tsx:575-582: Edit in the modal of the open image
HandleEditImage ==
    /\ hasApiKey
    /\ hpc = "idle"
    /\ rpc = "idle"
    /\ selectedImage # <<>>
    /\ runs < MaxRuns
    /\ stopGenerationRef \/ calls < MaxCalls
    /\ runs' = runs + 1
    /\ \E newPrompt \in EditPrompts, seed \in Seeds :
          LET a == [prompt |-> newPrompt, printSize |-> config.printSize,
                    seed |-> seed, style |-> config.style,
                    colorMode |-> config.colorMode,
                    resolution |-> selectedImage.resolution,
                    useFrame |-> config.useFrame, frameStyle |-> config.frameStyle,
                    referenceImages |-> <<selectedImage.url>>, isEditing |-> TRUE,
                    transformType |-> "undefined"]
          IN  Commit(AttemptTop(Enter([Cur EXCEPT !.isGenerating = TRUE], "edit",
                                      selectedImage, a)))

\* App.tsx:853, a click on an image of the gallery opens it in the modal
OpenImage ==
    /\ hasApiKey
    /\ selectedImage = <<>>
    /\ \E i \in DOMAIN images : selectedImage' = images[i]
    /\ UNCHANGED <<stopGenerationRef, isGenerating, hasApiKey, manualApiKey, aistudio,
                   config, error, logs, images, failedJobs, dbImages, dbFailed, clock,
                   runs, stopClicks>>
    /\ UNCHANGED <<runnerVars, execVars, batchVars>>

\* App.tsx:201-206, on the key screen shown while the key flag is off
HandleSaveManualKey ==
    /\ ~hasApiKey
    /\ manualApiKey' = TRUE
    /\ hasApiKey' = TRUE
    /\ UNCHANGED <<stopGenerationRef, isGenerating, aistudio, selectedImage, config,
                   error, logs, images, failedJobs, dbImages, dbFailed, clock, runs,
                   stopClicks>>
    /\ UNCHANGED <<runnerVars, execVars, batchVars>>

(* Failures of the calls the executor awaits in its catch block *)

\* storageService.ts:110 and 118-120: openDB rejects, the error is logged to
\* the console and the promise resolves; then App.tsx:390-398
SaveFailedJobOpenFails ==
    /\ hpc = "saveFailed"
    /\ LET s1 == [Cur EXCEPT !.failedJobs = <<pending>> \o @]
       IN  Commit(AfterExecutor(Log(s1, <<"Saved failed job to Retry Queue.">>,
                                    "warning"), "null", ""))
    /\ UNCHANGED runs

\* storageService.ts:111-117: the put request fails; the promise was returned
\* without await, so its rejection passes the try of saveFailedJobToDB and
\* is thrown by the await at App.tsx:389, inside the catch block
SaveFailedJobPutFails ==
    /\ hpc = "saveFailed"
    /\ Commit(AfterExecutor(Cur, "threw", ""))
    /\ UNCHANGED runs

\* App.tsx:371: openSelectKey rejects, inside the catch block
OpenSelectKeyRejects ==
    /\ hpc = "selectKey"
    /\ Commit(AfterExecutor(Cur, "threw", ""))
    /\ UNCHANGED runs

----------------------------------------------------------------------------
(* The batch handlers: each builds a task list and runs it through          *)
(* runConcurrentTasks; each task runs one execution of generateImageSafe.   *)
(* Several of them can be under way at once.                                *)

\* the state a stretch of code of a batch works on
CurB == [s |-> Cur, selectedIds |-> selectedIds, batches |-> batches, jobs |-> jobs]

\* the fields of an execution that belong to one job
JobFields ==
    {"hpc", "handler", "target", "args", "retries", "errorMsg", "pending",
     "execResult", "reauths", "waits", "outcomes", "atEntry"}

\* the record the executor's code works on when it runs for job k
JobView(w, k) ==
    [f \in DOMAIN w.s |-> IF f \in JobFields THEN w.jobs[k][f] ELSE w.s[f]]

\* job k after a stretch of the executor's code that ended in the record s
JobRecord(w, k, s) ==
    [f \in DOMAIN w.jobs[k] |-> IF f \in JobFields THEN s[f] ELSE w.jobs[k][f]]

\* the application state after that stretch
AppRecord(w, s) ==
    [f \in DOMAIN w.s |-> IF f \in JobFields THEN w.s[f] ELSE s[f]]

CommitB(w) ==
    \E v \in {w} :
        /\ stopGenerationRef' = v.s.stopGenerationRef
        /\ isGenerating' = v.s.isGenerating
        /\ hasApiKey' = v.s.hasApiKey
        /\ selectedImage' = v.s.selectedImage
        /\ error' = v.s.error
        /\ logs' = v.s.logs
        /\ images' = v.s.images
        /\ failedJobs' = v.s.failedJobs
        /\ dbImages' = v.s.dbImages
        /\ dbFailed' = v.s.dbFailed
        /\ clock' = v.s.clock
        /\ calls' = v.s.calls
        /\ selectedIds' = v.selectedIds
        /\ batches' = v.batches
        /\ jobs' = v.jobs
        /\ UNCHANGED <<manualApiKey, aistudio, config, stopClicks, batchPrompts, clearing,
                       dismissing, uploadedImages, imageOps>>
        /\ UNCHANGED <<hpc, handler, target, args, retries, errorMsg, pending,
                       execResult, reauths, waits, outcomes, atEntry>>
        /\ UNCHANGED runnerVars

\* App.tsx:415, 606, 650, 687: images.filter(img => selectedIds.has(img.id))
Targets(imgs, ids) == SelectSeq(imgs, LAMBDA img : img.id \in ids)

\* the state of the promise e of task t of batch b
TaskStatus(w, b) ==
    [t \in 1..Len(w.batches[b].targets) |->
        IF t \in w.batches[b].skipped THEN "fulfilled"
        ELSE IF \E k \in DOMAIN w.jobs : w.jobs[k].batch = b /\ w.jobs[k].task = t
          THEN LET k == CHOOSE k \in DOMAIN w.jobs :
                            w.jobs[k].batch = b /\ w.jobs[k].task = t
               IN  IF w.jobs[k].hpc # "idle" THEN "running"
                   ELSE IF w.jobs[k].execResult = "threw" THEN "rejected"
                   ELSE "fulfilled"
          ELSE "pending"]

\* what the handler logs when its run is over: App.tsx:498, 440, 639, 676, 713
FinishedLog(kind) ==
    CASE kind = "generate" -> [message |-> <<"Finished.">>, type |-> "info"]
      [] kind = "batchEdit" -> [message |-> <<"Batch Edit Finished.">>, type |-> "success"]
      [] kind = "upscale" -> [message |-> <<"Batch Upscale Finished.">>, type |-> "success"]
      [] kind = "colorize" -> [message |-> <<"Batch Colorize Finished.">>, type |-> "success"]
      [] kind = "decolorize" ->
           [message |-> <<"Batch Decolorize Finished.">>, type |-> "success"]

\* App.tsx:279 resolved, then the rest of the handler: the finally block of
\* handleGenerate (App.tsx:495-499) or the lines after the run of a batch
\* over the selection (App.tsx:439-441, 638-640, 675-677, 712-714)
BatchTail(w, b) ==
    LET kind == w.batches[b].kind
        l == FinishedLog(kind)
        s1 == Log([w.s EXCEPT !.isGenerating = FALSE,
                              !.stopGenerationRef =
                                  IF kind = "generate" THEN FALSE ELSE @],
                  l.message, l.type)
    IN  IF kind = "retryAll"
          \* App.tsx:564: the handler awaits getFailedJobsFromDB
          THEN [w EXCEPT !.batches[b].rpc = "refreshing"]
          ELSE [w EXCEPT !.s = s1,
                         !.selectedIds = IF kind = "generate" THEN @ ELSE {},
                         !.batches[b].rpc = "done"]

\* App.tsx:270-273 and 279 for the run of batch b: the head of iteration i
LoopHeadB(w, b, i) ==
    LET bt == w.batches[b]
        w1 == [w EXCEPT !.batches[b].tidx = i]
    IN  IF i > Len(bt.targets) \/ ShouldBreak(w.s.stopGenerationRef)
          THEN LET w2 == [w1 EXCEPT !.batches[b].awaited = bt.executing]
               IN  IF PromiseAllSettled(bt.executing, TaskStatus(w, b))
                     THEN BatchTail(w2, b)
                     ELSE [w2 EXCEPT !.batches[b].rpc = "joining"]
          ELSE [w1 EXCEPT !.batches[b].rpc = "pacing", !.batches[b].awaited = <<>>]

\* App.tsx:275: the promise of task t of batch b has settled; its callback
\* edits 'executing', and a runner waiting on it goes on
TaskSettledB(w, b, t) ==
    LET bt == w.batches[b]
        ex == IF TaskStatus(w, b)[t] = "rejected" THEN OnRejected(bt.executing, t)
                                                  ELSE OnFulfilled(bt.executing, t)
        w1 == [w EXCEPT !.batches[b].executing = ex]
    IN  CASE bt.rpc = "racing" -> LoopHeadB(w1, b, bt.tidx + 1)
          [] bt.rpc = "joining" /\ PromiseAllSettled(bt.awaited, TaskStatus(w, b)) ->
               BatchTail(w1, b)
          [] OTHER -> w1

\* the colour mode of the configuration for every handler
ColorModeOfConfig(kind) == config.colorMode

\* the colour mode a task asks for: forced at App.tsx:657 (colorize) and 694
\* (decolorize), config.colorMode at 424, 463 and 616
ColorModeFor(kind) ==
    CASE kind = "colorize" -> "color"
      [] kind = "decolorize" -> "bw"
      [] OTHER -> config.colorMode

\* the resolution of the side panel
GlobalResolution(tgt, cfg) == cfg.resolution

\* App.tsx:424: a batch edit calls with the resolution of the image it edits
EditResolution(tgt, cfg) == tgt.resolution

\* a text-only call, whatever was uploaded
NoReferences(uploaded) == <<>>

\* App.tsx:467: the uploaded images of the render the handler ran in
ReferencesOfGenerate(uploaded) == uploaded

\* the arguments a task of batch bt passes to generateImageSafe for its
\* t-th target: App.tsx:423-425 (batch edit), 458-468 (new generation),
\* 611-622 (upscale), 655-660 (colorize), 692-697 (decolorize), 543-547
\* (Retry All, every argument from the job's stored configuration)
TaskArgs(bt, t, seed) ==
    LET tgt == bt.targets[t]
        common == [printSize |-> config.printSize, seed |-> seed,
                   style |-> config.style, colorMode |-> ColorModeFor(bt.kind),
                   useFrame |-> config.useFrame, frameStyle |-> config.frameStyle]
        own == CASE bt.kind = "generate" ->
                      [prompt |-> tgt, resolution |-> config.resolution,
                       referenceImages |-> ReferencesOfGenerate(bt.uploaded),
                       isEditing |-> FALSE,
                       transformType |-> "undefined"]
                 [] bt.kind = "batchEdit" ->
                      [prompt |-> bt.prompt, resolution |-> EditResolution(tgt, config),
                       referenceImages |-> <<tgt.url>>, isEditing |-> TRUE,
                       transformType |-> "undefined"]
                 [] bt.kind = "upscale" ->
                      [prompt |-> tgt.prompt, resolution |-> bt.resolution,
                       referenceImages |-> <<tgt.url>>, isEditing |-> TRUE,
                       transformType |-> "undefined"]
                 [] bt.kind \in {"colorize", "decolorize"} ->
                      [prompt |-> tgt.prompt, resolution |-> tgt.resolution,
                       referenceImages |-> <<tgt.url>>, isEditing |-> TRUE,
                       transformType |-> bt.kind]
                 [] bt.kind = "retryAll" ->
                      [f \in DOMAIN common \cup
                              {"prompt", "resolution", "referenceImages", "isEditing",
                               "transformType"} |-> tgt.jobConfig[f]]
    IN  [f \in DOMAIN common \cup DOMAIN own |->
            IF f \in DOMAIN own THEN own[f] ELSE common[f]]

\* the flag not read by the task
TaskSkipsNever(stop) == FALSE

\* App.tsx:421, 455, 608, 652, 689: if (stopGenerationRef.current) return;
TaskSkips(stop) == stop

\* App.tsx:273-278 for the run of batch b: the pacing timer fires, the task
\* is invoked and runs up to its first await (the dispatch of the generation
\* call) or returns at once, and the runner reaches its next await
PacingElapsedB(b) ==
    /\ b \in DOMAIN batches
    /\ batches[b].rpc = "pacing"
    /\ \E seed \in Seeds :
          LET w == CurB
              bt == batches[b]
              t == TaskAt(bt.tidx, Len(bt.targets))
              ex == Append(bt.executing, t)
              w1 == [w EXCEPT !.batches[b].executing = ex,
                              !.batches[b].started = Append(@, t)]
              race == RaceNeeded(Len(ex), BATCH_CONCURRENCY)
              \* the runner's own code, which runs before the task does
              Runner(v) == IF race THEN [v EXCEPT !.batches[b].rpc = "racing",
                                                  !.batches[b].awaited = ex]
                                   ELSE LoopHeadB(v, b, bt.tidx + 1)
          IN  IF TaskSkips(stopGenerationRef)
                THEN LET w2 == Runner(w1)
                         w3 == [w2 EXCEPT !.batches[b].skipped = @ \cup {t}]
                     IN  CommitB(TaskSettledB(w3, b, t))
                ELSE LET s1 == AttemptTop(Enter(w.s, bt.kind, bt.targets[t],
                                                TaskArgs(bt, t, seed)))
                         job == [f \in JobFields \cup {"batch", "task"} |->
                                    CASE f = "batch" -> b
                                      [] f = "task" -> t
                                      [] OTHER -> s1[f]]
                         w2 == [w1 EXCEPT !.s = AppRecord(w1, s1),
                                          !.jobs = Append(@, job)]
                     IN  CommitB(Runner(w2))
    /\ UNCHANGED runs

\* a stretch of the executor's code for job k ended in the record s; when the
\* task is over, its promise settles
JobStep(k, s) ==
    \E s0 \in {s} :
    \E w1 \in {[CurB EXCEPT !.s = AppRecord(CurB, s0),
                           !.jobs[k] = JobRecord(CurB, k, s0)]} :
        /\ IF s0.hpc = "idle"
             THEN CommitB(TaskSettledB(w1, jobs[k].batch, jobs[k].task))
             ELSE CommitB(w1)
        /\ UNCHANGED runs

\* App.tsx:339-341 in a task
JobGenerateReturns ==
    \E k \in DOMAIN jobs, url \in Urls :
        /\ jobs[k].hpc = "calling"
        /\ JobStep(k, AfterExecutor(Outcome(JobView(CurB, k), <<"ok">>), "value", url))

\* App.tsx:342-343 and 398 in a task
JobGenerateReturnsNull ==
    \E k \in DOMAIN jobs :
        /\ jobs[k].hpc = "calling"
        /\ JobStep(k, AfterExecutor(Outcome(JobView(CurB, k), <<"null">>), "null", ""))

\* App.tsx:345-396 in a task
JobGenerateThrows ==
    \E k \in DOMAIN jobs, msg \in BatchErrorMessages :
        /\ jobs[k].hpc = "calling"
        /\ JobStep(k, Catch(Outcome(JobView(CurB, k), msg), msg))

\* App.tsx:345-358 in a task: the call threw a rate-limit message
JobGenerateRateLimited ==
    \E k \in DOMAIN jobs :
        /\ jobs[k].hpc = "calling"
        /\ JobStep(k, Catch(Outcome(JobView(CurB, k), Msg429), Msg429))

\* App.tsx:345-350 and 362-374 in a task: the call threw a message that names
\* a rejected key
JobGenerateDenied ==
    \E k \in DOMAIN jobs :
        /\ jobs[k].hpc = "calling"
        /\ JobStep(k, Catch(Outcome(JobView(CurB, k), Msg403), Msg403))

\* App.tsx:356-358 in a task: the backoff wait is over
JobBackoffElapsed ==
    \E k \in DOMAIN jobs :
        /\ jobs[k].hpc = "backoff"
        /\ LET s == JobView(CurB, k)
           IN  JobStep(k, AttemptTop([s EXCEPT !.retries = RetriesIncremented(@)]))

\* App.tsx:389-398 in a task
JobSaveFailedJobDone ==
    \E k \in DOMAIN jobs :
        /\ jobs[k].hpc = "saveFailed"
        /\ JobStep(k, FailedJobSaved(JobView(CurB, k)))

\* App.tsx:402-403 in a task
JobSaveImageDone ==
    \E k \in DOMAIN jobs :
        /\ jobs[k].hpc = "addImage"
        /\ JobStep(k, ImageSaved(JobView(CurB, k)))

\* storageService.ts:143-152 and App.tsx:557-559 in a task of Retry All: the
\* record leaves the store, the in-memory list is not touched
JobDeleteFailedJobDone ==
    \E k \in DOMAIN jobs :
        /\ jobs[k].hpc = "delFailed"
        /\ LET s == JobView(CurB, k)
           IN  JobStep(k, TaskReturns([s EXCEPT !.dbFailed =
                                                    StoreDelete(@, s.target.id)]))

\* the handler hands its tasks to runConcurrentTasks, which runs up to its
\* first await (App.tsx:270-273)
StartBatch(w, s, kind, targets, prompt, resolution) ==
    LET bt == [kind |-> kind, targets |-> targets, prompt |-> prompt,
               resolution |-> resolution, tidx |-> 1, rpc |-> "pacing",
               executing |-> <<>>, awaited |-> <<>>, started |-> <<>>,
               skipped |-> {}, uploaded |-> uploadedImages]
        w1 == [w EXCEPT !.s = s, !.batches = Append(@, bt)]
    IN  LoopHeadB(w1, Len(w1.batches), 1)

\* App.tsx:407, 598-599, 644-645, 681-682: the handler returns before it has
\* written anything
ReturnsAtOnce ==
    UNCHANGED <<stopGenerationRef, isGenerating, hasApiKey, manualApiKey, aistudio,
                selectedImage, config, error, logs, images, failedJobs, dbImages,
                dbFailed, clock, stopClicks, runnerVars, execVars, batchVars>>

\* the selection never taken as empty
SelectionEmptyNever(ids) == FALSE

\* App.tsx:599, 645, 682: selectedIds.size === 0
SelectionEmpty(ids) == ids = {}

\* App.tsx:597-606, 643-650, 680-687: the start of a handler that works on
\* the selection
HandleBatchOverSelection(kind, resolution, message) ==
    /\ runs < MaxRuns
    /\ runs' = runs + 1
    /\ IF ~hasApiKey \/ SelectionEmpty(selectedIds)
         THEN ReturnsAtOnce
         ELSE LET s1 == Log([Cur EXCEPT !.isGenerating = TRUE,
                                        !.stopGenerationRef = FALSE],
                            message, "info")
              IN  CommitB(StartBatch(CurB, s1, kind, Targets(images, selectedIds),
                                     <<>>, resolution))

\* App.tsx:597-641
HandleBatchUpscale(targetResolution) ==
    HandleBatchOverSelection("upscale", targetResolution,
        <<"Upscaling", Cardinality(selectedIds), "images to", targetResolution, "...">>)

\* App.tsx:643-678
HandleBatchColorize ==
    HandleBatchOverSelection("colorize", "undefined",
        <<"Colorizing", Cardinality(selectedIds), "images...">>)

\* App.tsx:680-715
HandleBatchDecolorize ==
    HandleBatchOverSelection("decolorize", "undefined",
        <<"Decolorizing", Cardinality(selectedIds), "images...">>)

\* App.tsx:452-453: every prompt config.batchCount times
RECURSIVE Repeat(_, _)
Repeat(x, n) == IF n = 0 THEN <<>> ELSE <<x>> \o Repeat(x, n - 1)

RECURSIVE AllTasks(_, _)
AllTasks(prompts, batchCount) ==
    IF prompts = <<>> THEN <<>>
    ELSE Repeat(Head(prompts), batchCount) \o AllTasks(Tail(prompts), batchCount)

\* App.tsx:446
PromptsToProcess ==
    IF Len(batchPrompts) > 0 THEN batchPrompts
    ELSE IF Trim(config.prompt) # <<>> THEN <<config.prompt>> ELSE <<>>

\* App.tsx:406-500, the whole handler: batch edit over the selection, or a
\* new generation
HandleGenerateBatch ==
    /\ runs < MaxRuns
    /\ runs' = runs + 1
    /\ IF ~hasApiKey
         THEN ReturnsAtOnce
         ELSE LET s1 == [Cur EXCEPT !.isGenerating = TRUE,
                                    !.stopGenerationRef = FALSE, !.error = "none"]
                  editPrompt == Trim(config.prompt)
                  targets == Targets(images, selectedIds)
                  tasks == AllTasks(PromptsToProcess, config.batchCount)
              IN  IF selectedIds # {}
                    THEN IF editPrompt = <<>>
                           THEN CommitB([CurB EXCEPT !.s =
                                    [s1 EXCEPT !.error = "Please enter a prompt.",
                                               !.isGenerating = FALSE]])
                           ELSE CommitB(StartBatch(CurB,
                                    Log(s1, <<"Batch Edit:", Len(targets), "images.">>,
                                        "info"),
                                    "batchEdit", targets, editPrompt, "undefined"))
                    ELSE IF PromptsToProcess = <<>>
                           THEN CommitB([CurB EXCEPT !.s =
                                    [s1 EXCEPT !.isGenerating = FALSE]])
                           ELSE CommitB(StartBatch(CurB,
                                    Log(s1, <<"Queueing", Len(tasks),
                                              "tasks (2 threads)...">>, "info"),
                                    "generate", tasks, <<>>, "undefined"))

(* The clicks the user interface offers *)

\* Controls.tsx:656-657: the button calls onGenerate while nothing is being
\* generated, and is disabled with nothing typed; App.tsx:775 hides it while
\* the key flag is off
ClickGenerate ==
    /\ hasApiKey
    /\ ~isGenerating
    /\ ~(Trim(config.prompt) = <<>> /\ Len(batchPrompts) = 0)
    /\ HandleGenerateBatch

\* Controls.tsx:215 and 240-254: the buttons of the batch panel exist while
\* something is selected, whether or not a batch is under way
ClickBatchUpscale ==
    /\ hasApiKey
    /\ selectedIds # {}
    /\ \E r \in UpscaleTargets : HandleBatchUpscale(r)

ClickBatchColorize ==
    /\ hasApiKey
    /\ selectedIds # {}
    /\ HandleBatchColorize

ClickBatchDecolorize ==
    /\ hasApiKey
    /\ selectedIds # {}
    /\ HandleBatchDecolorize

\* App.tsx:535-561: Retry All
HandleRetryAllFailed ==
    /\ runs < MaxRuns
    /\ runs' = runs + 1
    /\ IF Len(failedJobs) = 0
         THEN ReturnsAtOnce
         ELSE LET s1 == Log([Cur EXCEPT !.isGenerating = TRUE,
                                        !.stopGenerationRef = FALSE],
                            <<"Retrying all", Len(failedJobs), "failed jobs...">>,
                            "info")
              IN  CommitB(StartBatch(CurB, s1, "retryAll", failedJobs, <<>>,
                                     "undefined"))

\* App.tsx:867-869: the button is disabled with an empty list and while
\* isGenerating
ClickRetryAll ==
    /\ hasApiKey
    /\ failedJobs # <<>>
    /\ ~isGenerating
    /\ HandleRetryAllFailed

\* the list as it is, whatever the store holds
ListAsItIs(store) == failedJobs

\* storageService.ts:127-130: getAll(), sorted with the newest first
RECURSIVE SortedNewestFirst(_)
SortedNewestFirst(store) ==
    IF store = {} THEN <<>>
    ELSE LET newest == CHOOSE j \in store : \A o \in store : o.timestamp <= j.timestamp
         IN  <<newest>> \o SortedNewestFirst(store \ {newest})

\* App.tsx:564-566: getFailedJobsFromDB has answered; the list is replaced
\* by what the store holds
RetryAllRefreshed ==
    \E b \in DOMAIN batches :
        /\ batches[b].rpc = "refreshing"
        /\ CommitB([CurB EXCEPT !.s.failedJobs = SortedNewestFirst(dbFailed),
                                !.s.isGenerating = FALSE,
                                !.batches[b].rpc = "done"])
        /\ UNCHANGED runs

\* storageService.ts:123-141 and App.tsx:564-566: the getAll request fails;
\* the promise was returned without await, so its rejection passes the try of
\* getFailedJobsFromDB and is thrown by the await at App.tsx:564; the two
\* lines after it are not run
RetryAllRefreshFails ==
    \E b \in DOMAIN batches :
        /\ batches[b].rpc = "refreshing"
        /\ CommitB([CurB EXCEPT !.batches[b].rpc = "threw"])
        /\ UNCHANGED runs

\* App.tsx:903: Dismiss, never disabled; the handler waits for the store
HandleDismissJob ==
    /\ hasApiKey
    /\ \E i \in DOMAIN failedJobs :
          /\ failedJobs[i].id \notin dismissing
          /\ dismissing' = dismissing \cup {failedJobs[i].id}
    /\ UNCHANGED <<appVars, runnerVars, execVars, selectedIds, batchPrompts, batches,
                   jobs, clearing, uploadedImages, imageOps>>

\* storageService.ts:143-152 and App.tsx:904-905: the record leaves the
\* store, then the list
DismissJobDone ==
    \E id \in dismissing :
        /\ dismissing' = dismissing \ {id}
        /\ dbFailed' = StoreDelete(dbFailed, id)
        /\ failedJobs' = SelectSeq(failedJobs, LAMBDA j : j.id # id)
        /\ UNCHANGED <<stopGenerationRef, isGenerating, hasApiKey, manualApiKey,
                       aistudio, selectedImage, config, error, logs, images, dbImages,
                       clock, runs, stopClicks>>
        /\ UNCHANGED <<runnerVars, execVars, selectedIds, batchPrompts, batches, jobs,
                       clearing, uploadedImages, imageOps>>

\* the data URLs a file upload yields
UploadedFiles == {"data:ref"}

\* Controls.tsx:81-94: a file of the upload box has been read
HandleFileUpload ==
    /\ hasApiKey
    /\ selectedIds = {}
    /\ Len(uploadedImages) < MaxUploads
    /\ \E base64 \in UploadedFiles : uploadedImages' = Append(uploadedImages, base64)
    /\ UNCHANGED <<appVars, runnerVars, execVars, selectedIds, batchPrompts, batches,
                   jobs, clearing, dismissing, imageOps>>

\* Controls.tsx:263-265: Clear All, shown while the list is not empty
ClearUploadedImages ==
    /\ hasApiKey
    /\ selectedIds = {}
    /\ uploadedImages # <<>>
    /\ uploadedImages' = <<>>
    /\ UNCHANGED <<appVars, runnerVars, execVars, selectedIds, batchPrompts, batches,
                   jobs, clearing, dismissing, imageOps>>

\* Controls.tsx:347-348: a number typed in the batch-count box
SetBatchCount ==
    /\ hasApiKey
    /\ selectedIds = {}
    /\ \E n \in 1..MaxBatchCount :
          /\ n # config.batchCount
          /\ config' = [config EXCEPT !.batchCount = n]
    /\ UNCHANGED <<stopGenerationRef, isGenerating, hasApiKey, manualApiKey, aistudio,
                   selectedImage, error, logs, images, failedJobs, dbImages, dbFailed,
                   clock, runs, stopClicks>>
    /\ UNCHANGED <<runnerVars, execVars, batchVars>>

\* App.tsx:217-223, the checkbox of an image of the gallery (Gallery.tsx:45-48)
ToggleSelection ==
    /\ hasApiKey
    /\ \E id \in ToggleIds :
          /\ \E i \in DOMAIN images : images[i].id = id
          /\ selectedIds' = IF id \in selectedIds THEN selectedIds \ {id}
                                                  ELSE selectedIds \cup {id}
    /\ UNCHANGED <<appVars, runnerVars, execVars, batchPrompts, batches, jobs, clearing,
                   dismissing, uploadedImages, imageOps>>

\* App.tsx:569-570 and 875-876: Clear List, enabled while the list is not
\* empty; the handler waits for the store
HandleClearFailedJobs ==
    /\ hasApiKey
    /\ failedJobs # <<>>
    /\ clearing < MaxPendingClears
    /\ clearing' = clearing + 1
    /\ UNCHANGED <<appVars, runnerVars, execVars, selectedIds, batchPrompts, batches,
                   jobs, dismissing, uploadedImages, imageOps>>

\* the store left as it is
StoreClearNothing(store) == store

\* storageService.ts:163: store.clear()
StoreClear(store) == {}

\* storageService.ts:158-166 and App.tsx:571-572: the store is cleared, then
\* the list, and the handler logs
ClearFailedJobsDone ==
    /\ clearing > 0
    /\ clearing' = clearing - 1
    /\ dbFailed' = StoreClear(dbFailed)
    /\ failedJobs' = <<>>
    /\ logs' = addLog(<<"Cleared all failed jobs.">>, "info")
    /\ UNCHANGED <<stopGenerationRef, isGenerating, hasApiKey, manualApiKey, aistudio,
                   selectedImage, config, error, images, dbImages, clock, runs,
                   stopClicks>>
    /\ UNCHANGED <<runnerVars, execVars, selectedIds, batchPrompts, batches, jobs,
                   dismissing, uploadedImages, imageOps>>

\* App.tsx:225-228 and Gallery.tsx:62-67: Select All / Deselect All
ToggleSelectAll ==
    /\ hasApiKey
    /\ selectedIds' = IF Cardinality(selectedIds) = Len(images)
                        THEN {}
                        ELSE {images[i].id : i \in DOMAIN images}
    /\ selectedIds' # selectedIds
    /\ UNCHANGED <<appVars, runnerVars, execVars, batchPrompts, batches, jobs, clearing,
                   dismissing, uploadedImages, imageOps>>

\* what the handlers of the gallery leave alone
GalleryFrame ==
    /\ UNCHANGED <<stopGenerationRef, isGenerating, hasApiKey, manualApiKey, aistudio,
                   selectedImage, config, error, failedJobs, dbFailed, clock, runs,
                   stopClicks>>
    /\ UNCHANGED <<runnerVars, execVars, batchPrompts, batches, jobs, clearing,
                   dismissing, uploadedImages>>

\* a handler of the gallery is invoked and waits for the store
GalleryHandlerBegins(op) ==
    /\ hasApiKey
    /\ Len(imageOps) < MaxImageOps
    /\ imageOps' = Append(imageOps, op)
    /\ UNCHANGED <<appVars, runnerVars, execVars, selectedIds, batchPrompts, batches,
                   jobs, clearing, dismissing, uploadedImages>>

\* App.tsx:750-751 and Gallery.tsx:80: the bin button with nothing selected
HandleClearHistory ==
    /\ selectedIds = {}
    /\ GalleryHandlerBegins([kind |-> "clear", ids |-> {}, left |-> {}])

\* App.tsx:757-760 and Gallery.tsx:80: the bin button with a selection
HandleDeleteSelected ==
    /\ selectedIds # {}
    /\ GalleryHandlerBegins([kind |-> "selected", ids |-> selectedIds,
                             left |-> selectedIds])

\* App.tsx:770-771 and Gallery.tsx:39-43: the bin of one image
HandleDeleteImage ==
    \E i \in DOMAIN images :
        GalleryHandlerBegins([kind |-> "one", ids |-> {images[i].id},
                              left |-> {images[i].id}])

\* the history left as it is
RemoveNoImages(imgs, ids) == imgs

\* App.tsx:766 and 772: prev.filter(img => the id of img is not among ids)
RemoveImages(imgs, ids) == SelectSeq(imgs, LAMBDA img : img.id \notin ids)

\* storageService.ts:91-100 and App.tsx:751-754: the store is cleared, then
\* the history and the selection, and the handler logs
ClearHistoryDone ==
    \E o \in DOMAIN imageOps :
        /\ imageOps[o].kind = "clear"
        /\ imageOps' = Splice1(imageOps, o - 1)
        /\ dbImages' = StoreClear(dbImages)
        /\ images' = <<>>
        /\ selectedIds' = {}
        /\ logs' = addLog(<<"History cleared.">>, "warning")
        /\ GalleryFrame

\* storageService.ts:76-85 and App.tsx:770-773: the record leaves the store,
\* then the history; the selection is not touched
DeleteImageDone ==
    \E o \in DOMAIN imageOps :
        /\ imageOps[o].kind = "one"
        /\ imageOps' = Splice1(imageOps, o - 1)
        /\ dbImages' = {r \in dbImages : r.id \notin imageOps[o].ids}
        /\ images' = RemoveImages(images, imageOps[o].ids)
        /\ UNCHANGED <<selectedIds, logs>>
        /\ GalleryFrame

\* App.tsx:760-767: one deleteImageFromDB of the loop has completed; after
\* the last the handler filters the history by the selection it was invoked
\* with, empties the selection and logs
DeleteSelectedStep ==
    \E o \in DOMAIN imageOps :
        /\ imageOps[o].kind = "selected"
        /\ \E id \in imageOps[o].left :
              LET left == imageOps[o].left \ {id}
              IN  /\ dbImages' = {r \in dbImages : r.id # id}
                  /\ IF left # {}
                       THEN /\ imageOps' = [imageOps EXCEPT ![o].left = left]
                            /\ UNCHANGED <<images, selectedIds, logs>>
                       ELSE /\ imageOps' = Splice1(imageOps, o - 1)
                            /\ images' = RemoveImages(images, imageOps[o].ids)
                            /\ selectedIds' = {}
                            /\ logs' = addLog(<<"Deleted", Cardinality(imageOps[o].ids),
                                                "images.">>, "info")
        /\ GalleryFrame

(* The handlers called where the user interface does not offer them, as a   *)
(* test of a handler does                                                   *)

\* the batch panel is not shown (Controls.tsx:240)
CallBatchHandlerWithoutSelection ==
    /\ selectedIds = {}
    /\ \/ \E r \in UpscaleTargets : HandleBatchUpscale(r)
       \/ HandleBatchColorize
       \/ HandleBatchDecolorize

\* the button is disabled (Controls.tsx:657)
CallGenerateWithoutPrompt ==
    /\ ~isGenerating
    /\ Trim(config.prompt) = <<>>
    /\ Len(batchPrompts) = 0
    /\ HandleGenerateBatch

----------------------------------------------------------------------------
\* after construction and the initial load (App.tsx:141-172): the key is
\* present, and the stores hold one image and one failed job of an earlier
\* session
Init ==
    /\ stopGenerationRef = FALSE
    /\ isGenerating = FALSE
    /\ hasApiKey = TRUE
    /\ manualApiKey \in BOOLEAN
    /\ aistudio \in BOOLEAN
    /\ manualApiKey \/ aistudio
    /\ selectedImage = <<>>
    /\ config = DEFAULT_CONFIG
    /\ error = "none"
    /\ logs = <<>>
    /\ images = <<StoredImage>>
    /\ failedJobs = <<StoredFailedJob>>
    /\ dbImages = {StoredImage}
    /\ dbFailed = {StoredFailedJob}
    /\ clock = 1
    /\ runs = 0
    /\ stopClicks = 0
    /\ rpc = "idle"
    /\ runState = "none"
    /\ numTasks = 0
    /\ concurrency = 1
    /\ tidx = 0
    /\ executing = <<>>
    /\ awaited = <<>>
    /\ tstatus = [t \in 1..MaxTasks |-> "pending"]
    /\ startOrder = <<>>
    /\ settleOrder = <<>>
    /\ stopAt = <<>>
    /\ stopPhase = <<>>
    /\ hpc = "idle"
    /\ handler = "none"
    /\ target = <<>>
    /\ args = <<>>
    /\ retries = 0
    /\ errorMsg = <<>>
    /\ pending = <<>>
    /\ execResult = "none"
    /\ calls = 0
    /\ reauths = 0
    /\ waits = <<>>
    /\ outcomes = <<>>
    /\ atEntry = [failedJobs |-> <<StoredFailedJob>>, dbFailed |-> {StoredFailedJob},
                  images |-> <<StoredImage>>, dbImages |-> {StoredImage}, calls |-> 0]
    /\ selectedIds = {}
    /\ batchPrompts = <<>>
    /\ batches = <<>>
    /\ jobs = <<>>
    /\ clearing = 0
    /\ dismissing = {}
    /\ uploadedImages = <<>>
    /\ imageOps = <<>>

NextRunner ==
    \/ \E n \in 1..MaxTasks, c \in 1..MaxConcurrency : HandleGenerate(n, c)
    \/ PacingElapsed
    \/ TaskResolves
    \/ TaskRejects
    \/ HandleStop

SpecRunner == Init /\ [][NextRunner]_vars

\* a session of single-job handlers with storage and the key dialog working
Next ==
    \/ HandleRetryJob
    \/ HandleEditImage
    \/ OpenImage
    \/ HandleStop
    \/ HandleSaveManualKey
    \/ GenerateReturns
    \/ GenerateReturnsNull
    \/ GenerateThrows
    \/ BackoffElapsed
    \/ OpenSelectKeyResolves
    \/ SaveFailedJobDone
    \/ SaveImageDone
    \/ DeleteFailedJobDone

Spec == Init /\ [][Next]_vars

\* the same session with the awaited calls of the catch block able to fail
NextFaults ==
    \/ Next
    \/ SaveFailedJobOpenFails
    \/ SaveFailedJobPutFails
    \/ OpenSelectKeyRejects

SpecFaults == Init /\ [][NextFaults]_vars

\* a session of batch work: two images and one failed job are in the stores,
\* some images are ticked, and the prompt box holds one of PromptBoxes
InitBatch ==
    /\ stopGenerationRef = FALSE
    /\ isGenerating = FALSE
    /\ hasApiKey = TRUE
    /\ manualApiKey = TRUE
    /\ aistudio = FALSE
    /\ selectedImage = <<>>
    /\ \E box \in PromptBoxes :
          /\ config = [DEFAULT_CONFIG EXCEPT !.prompt = box.prompt]
          /\ batchPrompts = box.batchPrompts
    /\ error = "none"
    /\ logs = <<>>
    /\ images = <<StoredImage, OlderStoredImage>>
    /\ failedJobs = <<StoredFailedJob>>
    /\ dbImages = {StoredImage, OlderStoredImage}
    /\ dbFailed = {StoredFailedJob}
    /\ clock = 1
    /\ runs = 0
    /\ stopClicks = 0
    /\ rpc = "idle"
    /\ runState = "none"
    /\ numTasks = 0
    /\ concurrency = 1
    /\ tidx = 0
    /\ executing = <<>>
    /\ awaited = <<>>
    /\ tstatus = [t \in 1..MaxTasks |-> "pending"]
    /\ startOrder = <<>>
    /\ settleOrder = <<>>
    /\ stopAt = <<>>
    /\ stopPhase = <<>>
    /\ hpc = "idle"
    /\ handler = "none"
    /\ target = <<>>
    /\ args = <<>>
    /\ retries = 0
    /\ errorMsg = <<>>
    /\ pending = <<>>
    /\ execResult = "none"
    /\ calls = 0
    /\ reauths = 0
    /\ waits = <<>>
    /\ outcomes = <<>>
    /\ atEntry = [failedJobs |-> <<StoredFailedJob>>, dbFailed |-> {StoredFailedJob},
                  images |-> <<StoredImage, OlderStoredImage>>,
                  dbImages |-> {StoredImage, OlderStoredImage}, calls |-> 0]
    /\ selectedIds \in SUBSET {StoredImage.id, OlderStoredImage.id}
    /\ batches = <<>>
    /\ jobs = <<>>
    /\ clearing = 0
    /\ dismissing = {}
    /\ uploadedImages = <<>>
    /\ imageOps = <<>>

\* a further task can begin a job
JobBudget == stopGenerationRef \/ Len(jobs) < MaxJobs

\* what the user interface offers in a session of batch work, and the steps
\* of the runs and jobs it starts
NextBatch ==
    \/ ClickGenerate
    \/ ClickBatchUpscale
    \/ ClickBatchColorize
    \/ ClickBatchDecolorize
    \/ HandleStop
    \/ \E b \in 1..MaxRuns : JobBudget /\ PacingElapsedB(b)
    \/ JobGenerateReturns
    \/ JobGenerateReturnsNull
    \/ JobGenerateThrows
    \/ JobSaveFailedJobDone
    \/ JobSaveImageDone

SpecBatch == InitBatch /\ [][NextBatch]_vars

\* the start of such a session, as long as no generation call has returned
NextOverlap ==
    \/ ClickGenerate
    \/ ClickBatchUpscale
    \/ ClickBatchColorize
    \/ ClickBatchDecolorize
    \/ HandleStop
    \/ \E b \in 1..MaxRuns : PacingElapsedB(b)

SpecOverlap == InitBatch /\ [][NextOverlap]_vars

\* a session of batch work in which every generation call returns an image,
\* the selection is edited, and the handlers are also called directly
NextHarness ==
    \/ ToggleSelection
    \/ ClickGenerate
    \/ ClickBatchUpscale
    \/ ClickBatchColorize
    \/ ClickBatchDecolorize
    \/ HandleStop
    \/ \E b \in 1..MaxRuns : JobBudget /\ PacingElapsedB(b)
    \/ JobGenerateReturns
    \/ JobSaveImageDone
    \/ CallBatchHandlerWithoutSelection
    \/ CallGenerateWithoutPrompt

SpecHarness == InitBatch /\ [][NextHarness]_vars

\* App.tsx:345-396: the call threw one of MixedMessages
GenerateThrowsMixed ==
    /\ hpc = "calling"
    /\ \E msg \in MixedMessages : Commit(Catch(Outcome(Cur, msg), msg))
    /\ UNCHANGED runs

\* the session of single-job handlers with those messages thrown as well
NextMixed ==
    \/ Next
    \/ GenerateThrowsMixed

SpecMixed == Init /\ [][NextMixed]_vars

\* a session of single-job handlers in which the failed list is also cleared
NextQueue ==
    \/ HandleClearFailedJobs
    \/ ClearFailedJobsDone
    \/ HandleRetryJob
    \/ GenerateReturns
    \/ GenerateThrows
    \/ BackoffElapsed
    \/ OpenSelectKeyResolves
    \/ SaveFailedJobDone
    \/ SaveImageDone
    \/ DeleteFailedJobDone

SpecQueue == Init /\ [][NextQueue]_vars

\* a session of New Generation: nothing is selected, the batch count and the
\* reference images are set in the side panel, every generation call returns
\* an image
NextGenerate ==
    \/ SetBatchCount
    \/ HandleFileUpload
    \/ ClearUploadedImages
    \/ ClickGenerate
    \/ HandleStop
    \/ \E b \in 1..MaxRuns : Len(jobs) < MaxGenerateJobs /\ PacingElapsedB(b)
    \/ JobGenerateReturns
    \/ JobSaveImageDone

InitGenerate == InitBatch /\ selectedIds = {}

SpecGenerate == InitGenerate /\ [][NextGenerate]_vars

\* one batch, of any kind, whose generation calls end in every way; what
\* the program does by itself is done sooner or later, what the user does
\* may never be done
UserActsLive ==
    \/ batches = <<>> /\ ClickGenerate
    \/ batches = <<>> /\ ClickBatchUpscale
    \/ batches = <<>> /\ ClickRetryAll
    \/ HandleStop

\* a generation call settles
JobCallSettles ==
    \/ JobGenerateReturns
    \/ JobGenerateReturnsNull
    \/ JobGenerateThrows
    \/ calls <= MaxBackoffs /\ JobGenerateRateLimited

\* a timer fires
TimerFires ==
    \/ \E b \in 1..MaxRuns : JobBudget /\ PacingElapsedB(b)
    \/ JobBackoffElapsed

\* a request to the store is answered
StoreAnswers ==
    \/ JobSaveFailedJobDone
    \/ JobSaveImageDone
    \/ JobDeleteFailedJobDone
    \/ RetryAllRefreshed

NextLive == UserActsLive \/ JobCallSettles \/ TimerFires \/ StoreAnswers

SpecLive ==
    /\ InitBatch
    /\ [][NextLive]_vars
    /\ WF_vars(JobCallSettles)
    /\ WF_vars(TimerFires)
    /\ WF_vars(StoreAnswers)

\* the same session when a read of the store can fail
NextLiveFaults == NextLive \/ RetryAllRefreshFails

SpecLiveFaults ==
    /\ InitBatch
    /\ [][NextLiveFaults]_vars
    /\ WF_vars(JobCallSettles)
    /\ WF_vars(TimerFires)
    /\ WF_vars(StoreAnswers \/ RetryAllRefreshFails)

\* a session of batch work in which the remote API can reject the key
NextDenied ==
    \/ ClickGenerate
    \/ ClickBatchColorize
    \/ HandleStop
    \/ \E b \in 1..MaxRuns : JobBudget /\ PacingElapsedB(b)
    \/ JobGenerateReturns
    \/ JobGenerateDenied
    \/ JobSaveFailedJobDone
    \/ JobSaveImageDone

SpecDenied == InitBatch /\ [][NextDenied]_vars

\* a session of batch work in which every generation call is rate limited
NextBackoff ==
    \/ ClickBatchUpscale
    \/ ClickBatchColorize
    \/ HandleStop
    \/ \E b \in 1..MaxRuns : JobBudget /\ PacingElapsedB(b)
    \/ calls <= MaxBackoffs /\ JobGenerateRateLimited
    \/ JobBackoffElapsed

\* one entry of the history is selected when the session begins
InitBackoff == InitBatch /\ selectedIds = {StoredImage.id} /\ batchPrompts = <<>>

SpecBackoff == InitBackoff /\ [][NextBackoff]_vars

\* a session on the failed queue: two failed jobs of an earlier session are
\* in the store and in the list, nothing is selected or typed
InitSync ==
    /\ stopGenerationRef = FALSE
    /\ isGenerating = FALSE
    /\ hasApiKey = TRUE
    /\ manualApiKey = TRUE
    /\ aistudio = FALSE
    /\ selectedImage = <<>>
    /\ config = DEFAULT_CONFIG
    /\ batchPrompts = <<>>
    /\ error = "none"
    /\ logs = <<>>
    /\ images = <<StoredImage>>
    /\ failedJobs = <<StoredFailedJob, OlderStoredFailedJob>>
    /\ dbImages = {StoredImage}
    /\ dbFailed = {StoredFailedJob, OlderStoredFailedJob}
    /\ clock = 1
    /\ runs = 0
    /\ stopClicks = 0
    /\ rpc = "idle"
    /\ runState = "none"
    /\ numTasks = 0
    /\ concurrency = 1
    /\ tidx = 0
    /\ executing = <<>>
    /\ awaited = <<>>
    /\ tstatus = [t \in 1..MaxTasks |-> "pending"]
    /\ startOrder = <<>>
    /\ settleOrder = <<>>
    /\ stopAt = <<>>
    /\ stopPhase = <<>>
    /\ hpc = "idle"
    /\ handler = "none"
    /\ target = <<>>
    /\ args = <<>>
    /\ retries = 0
    /\ errorMsg = <<>>
    /\ pending = <<>>
    /\ execResult = "none"
    /\ calls = 0
    /\ reauths = 0
    /\ waits = <<>>
    /\ outcomes = <<>>
    /\ atEntry = [failedJobs |-> <<StoredFailedJob, OlderStoredFailedJob>>,
                  dbFailed |-> {StoredFailedJob, OlderStoredFailedJob},
                  images |-> <<StoredImage>>, dbImages |-> {StoredImage}, calls |-> 0]
    /\ selectedIds = {}
    /\ batches = <<>>
    /\ jobs = <<>>
    /\ clearing = 0
    /\ dismissing = {}
    /\ uploadedImages = <<>>
    /\ imageOps = <<>>

\* what the failed queue offers, with the steps of the runs and jobs it
\* starts: the call of a task of Retry All returns an image or throws, the
\* call of a single Retry returns an image, and one Dismiss and one Clear
\* wait for the store at a time
NextSync ==
    \/ ClickRetryAll
    \/ \E b \in 1..MaxRuns : JobBudget /\ PacingElapsedB(b)
    \/ JobGenerateReturns
    \/ JobGenerateThrows
    \/ JobSaveFailedJobDone
    \/ JobSaveImageDone
    \/ JobDeleteFailedJobDone
    \/ RetryAllRefreshed
    \/ HandleRetryJob
    \/ GenerateReturns
    \/ SaveImageDone
    \/ DeleteFailedJobDone
    \/ dismissing = {} /\ HandleDismissJob
    \/ DismissJobDone
    \/ clearing = 0 /\ HandleClearFailedJobs
    \/ ClearFailedJobsDone

SpecSync == InitSync /\ [][NextSync]_vars

\* a session of Retry All over the two failed jobs of an earlier session,
\* with Stop
NextRetryAll ==
    \/ ClickRetryAll
    \/ HandleStop
    \/ \E b \in 1..MaxRuns : JobBudget /\ PacingElapsedB(b)
    \/ JobGenerateReturns
    \/ JobGenerateReturnsNull
    \/ JobGenerateThrows
    \/ JobSaveFailedJobDone
    \/ JobSaveImageDone
    \/ JobDeleteFailedJobDone
    \/ RetryAllRefreshed

SpecRetryAll == InitSync /\ [][NextRetryAll]_vars

\* a session on the gallery: images are selected and deleted while batches
\* add new ones
NextGallery ==
    \/ ToggleSelection
    \/ ToggleSelectAll
    \/ images # <<>> /\ HandleClearHistory
    \/ HandleDeleteSelected
    \/ HandleDeleteImage
    \/ ClearHistoryDone
    \/ DeleteImageDone
    \/ DeleteSelectedStep
    \/ batches = <<>> /\ ClickGenerate
    \/ batches = <<>> /\ ClickBatchColorize
    \/ \E b \in 1..MaxRuns : JobBudget /\ PacingElapsedB(b)
    \/ JobGenerateReturns
    \/ JobSaveImageDone

\* nothing is selected when the session begins, and a prompt is typed
InitGallery ==
    InitBatch /\ selectedIds = {} /\ batchPrompts = <<>> /\ Trim(config.prompt) # <<>>

SpecGallery == InitGallery /\ [][NextGallery]_vars

----------------------------------------------------------------------------
(* Properties of runConcurrentTasks *)

Running == {t \in 1..MaxTasks : tstatus[t] = "running"}

\* C1: in one run, the tasks started and not yet settled never number more
\* than the concurrency argument.
C1_InFlightWithinConcurrency == Cardinality(Running) <= concurrency

\* the third task of three was started with one of two slots still taken
C1_Witness ==
    /\ concurrency = 2
    /\ Len(startOrder) = 3
    /\ Cardinality(Running) = 2
    /\ tstatus[3] = "running"

C7_RejectionContained ==
    /\ [][\A t \in 1..MaxTasks :
            (tstatus[t] = "running" /\ tstatus'[t] = "rejected") =>
                /\ executing' = SelectSeq(executing, LAMBDA x : x # t)
                /\ runState' # "rejected"
                /\ \A u \in (1..MaxTasks) \ {t} : tstatus'[u] = tstatus[u]
                /\ rpc = "racing" => rpc' # "racing"]_vars
    /\ [](runState = "resolved" /\ stopAt = <<>> => Len(startOrder) = numTasks)

\* the first task rejected and the last one was still started and fulfilled
C7_Witness ==
    /\ runState = "resolved"
    /\ numTasks = 3
    /\ tstatus[1] = "rejected"
    /\ tstatus[3] = "fulfilled"
    /\ settleOrder[1] = 1

\* C8: the run has not resolved while a task it started is unsettled.
C8_ResolvesAfterAllSettled == runState = "resolved" => Running = {}

\* the loop ended on Stop with tasks in flight, and the run resolved later
C8_Witness ==
    /\ runState = "resolved"
    /\ stopAt # <<>>
    /\ Len(startOrder) < numTasks
    /\ awaited # <<>>

\* C9: tasks are started in list order, whatever order they finish in.
C9_StartedInListOrder == \A k \in DOMAIN startOrder : startOrder[k] = k

\* three tasks started, the second finished first
C9_Witness ==
    /\ Len(startOrder) = 3
    /\ settleOrder # <<>>
    /\ settleOrder[1] = 2

----------------------------------------------------------------------------
(* Properties of generateImageSafe *)

ExecDone == hpc = "idle" /\ execResult # "none"

RateLimitedMessage(m) ==
    /\ m \in ErrorMessages
    /\ Includes(m, <<"429">>) \/ Includes(m, <<"Too", "many", "requests">>)

\* this execution has written no FailedJob, to the store or to the list
NoFailedJobWritten ==
    /\ dbFailed = atEntry.dbFailed
    /\ failedJobs = atEntry.failedJobs

\* this execution has written one FailedJob, with error m, to both
OneFailedJobWritten(m) ==
    /\ Len(failedJobs) = Len(atEntry.failedJobs) + 1
    /\ Tail(failedJobs) = atEntry.failedJobs
    /\ failedJobs[1].error = m
    /\ failedJobs[1] \notin atEntry.dbFailed
    /\ dbFailed = atEntry.dbFailed \cup {failedJobs[1]}
    /\ Cardinality(dbFailed) = Cardinality(atEntry.dbFailed) + 1

\* C3: a rate-limited failure met with the retry counter below 3 writes no
\* FailedJob to the store or the in-memory list; one met with the counter at
\* 3 is followed by the write of exactly one.
C3_RateLimitPersistence ==
    outcomes # <<>> =>
        LET last == outcomes[Len(outcomes)]
        IN  RateLimitedMessage(last.result) =>
              /\ last.retries < 3 => NoFailedJobWritten /\ hpc # "saveFailed"
              /\ last.retries = 3 =>
                    \/ hpc = "saveFailed" /\ NoFailedJobWritten
                    \/ ExecDone /\ OneFailedJobWritten(last.result)

\* four rate-limited failures, one of them without "429", then one record
C3_Witness ==
    /\ ExecDone
    /\ Len(outcomes) = 4
    /\ outcomes[2].result = MsgTooMany
    /\ outcomes[4].result = Msg429
    /\ outcomes[4].retries = 3
    /\ OneFailedJobWritten(Msg429)

AllThrew429 == outcomes # <<>> /\ \A i \in DOMAIN outcomes : outcomes[i].result = Msg429

\* C4: when every call throws "429 Too many requests" and Stop is never
\* requested, an execution does not end before its fourth call, waits 10 s,
\* 20 s and 30 s in that order, one wait before each call after the first,
\* and ends with 4 calls made, exactly one FailedJob persisted whose error is
\* the thrown message, and null returned.
C4_AlwaysRateLimited ==
    (AllThrew429 /\ ~stopGenerationRef) =>
        /\ waits = SubSeq(<<10000, 20000, 30000>>, 1, Len(waits))
        /\ Len(outcomes) <= 4
        /\ Len(outcomes) < 4 => ~ExecDone /\ Len(waits) = Len(outcomes)
        /\ hpc = "calling" => calls = atEntry.calls + Len(waits) + 1
        /\ ExecDone =>
              /\ Len(outcomes) = 4
              /\ calls = atEntry.calls + 4
              /\ waits = <<10000, 20000, 30000>>
              /\ OneFailedJobWritten(Msg429)
              /\ execResult = "null"

C4_Witness ==
    /\ ExecDone
    /\ AllThrew429
    /\ ~stopGenerationRef
    /\ Len(outcomes) = 4
    /\ Len(waits) = 3

\* C5: when the call throws "403 API key not valid", the execution makes that
\* one call only, waits for no backoff, invalidates the key flag and raises
\* the re-authentication banner once, and ends with exactly one FailedJob
\* persisted.
C5_PermissionDenied ==
    (outcomes # <<>> /\ outcomes[1].result = Msg403) =>
        /\ Len(outcomes) = 1
        /\ calls = atEntry.calls + 1
        /\ waits = <<>>
        /\ reauths = 1
        /\ error = "API Key Invalid or Permission Denied. Please re-enter."
        /\ hpc \in {"selectKey", "saveFailed", "idle"}
        /\ hpc # "idle" => NoFailedJobWritten
        /\ hpc = "idle" => execResult = "null" /\ OneFailedJobWritten(Msg403)

\* the 403 met without a manual key: the key dialog was shown on the way
C5_Witness ==
    /\ ExecDone
    /\ Len(outcomes) = 1
    /\ outcomes[1].result = Msg403
    /\ ~manualApiKey
    /\ OneFailedJobWritten(Msg403)

\* C6: no exception leaves generateImageSafe, whatever the generation call
\* throws and however the key dialog and the failed-job write end.
C6_ExecutorNeverThrows == execResult # "threw"

\* C10: when the stop flag is set as an execution reaches the head of an
\* attempt, first or later, it returns null at once: no generation call, no
\* log entry, no FailedJob in the store or the in-memory list.
C10_AbandonedAtLoopHead ==
    [][((runs' = runs + 1 \/ (hpc = "backoff" /\ hpc' # "backoff"))
            /\ stopGenerationRef') =>
          /\ calls' = calls
          /\ logs' = logs
          /\ failedJobs' = failedJobs
          /\ dbFailed' = dbFailed
          /\ execResult' = "null"
          /\ hpc' = "idle"]_vars

\* a retry abandoned after its wait left the flag set, and the edit that
\* followed was abandoned at its first attempt
C10_Witness ==
    /\ runs = 2
    /\ handler = "edit"
    /\ ExecDone
    /\ execResult = "null"
    /\ outcomes = <<>>
    /\ calls = 1
    /\ \E i \in DOMAIN logs : logs[i].message[1] = "Rate Limited (429). Waiting"
    /\ \A i \in DOMAIN logs : logs[i].message[1] # "Retry"

----------------------------------------------------------------------------
(* Properties of the handlers of the failed-job queue *)

\* handleRetryJob has ended after the executor returned an image
RetrySucceeded == handler = "retry" /\ hpc = "idle" /\ execResult = "value"

\* C11: when Retry on a failed job ends after a successful generation call,
\* that job and no other is gone from the failed-job store and from the
\* in-memory list, the history and the image store hold exactly one entry
\* more, and the call was made with the seed stored in the job.
C11_RetryOneSuccess ==
    RetrySucceeded =>
        /\ target \in atEntry.dbFailed
        /\ dbFailed = atEntry.dbFailed \ {target}
        /\ failedJobs = SelectSeq(atEntry.failedJobs, LAMBDA j : j # target)
        /\ Len(images) = Len(atEntry.images) + 1
        /\ Tail(images) = atEntry.images
        /\ images[1] \notin atEntry.dbImages
        /\ dbImages = atEntry.dbImages \cup {images[1]}
        /\ args.seed = target.jobConfig.seed
        /\ outcomes[Len(outcomes)].result = <<"ok">>

\* a retry that succeeded while another failed job was in the queue
C11_Witness ==
    /\ RetrySucceeded
    /\ Len(atEntry.failedJobs) >= 2
    /\ Len(failedJobs) = Len(atEntry.failedJobs) - 1

----------------------------------------------------------------------------
(* Properties of the batch handlers *)

\* the jobs the tasks of batch b began
JobsOf(b) == {k \in DOMAIN jobs : jobs[k].batch = b}

\* batch b has run to its end, Stop was never clicked, and every generation
\* call of its jobs returned an image
DoneAllSucceeded(b) ==
    /\ batches[b].rpc = "done"
    /\ stopClicks = 0
    /\ \A k \in JobsOf(b) :
          \A i \in DOMAIN jobs[k].outcomes : jobs[k].outcomes[i].result = <<"ok">>

\* batch b has left, for each of its targets, one job whose new image is in
\* the history and in the store, was not there before, carries the prompt of
\* the target behind the words of prefix, and came from a call with the
\* colour mode and the transform type given; the images are M different ones
OneImagePerTarget(b, prefix, colorMode, transformType) ==
    LET M == Len(batches[b].targets)
        new == {jobs[k].pending : k \in JobsOf(b)}
    IN  /\ M >= 1
        /\ \A t \in 1..M :
              \E k \in JobsOf(b) :
                  /\ jobs[k].task = t
                  /\ \A k2 \in JobsOf(b) : jobs[k2].task = t => k2 = k
                  /\ jobs[k].target = batches[b].targets[t]
                  /\ jobs[k].pending.prompt = prefix \o batches[b].targets[t].prompt
                  /\ jobs[k].args.colorMode = colorMode
                  /\ jobs[k].args.transformType = transformType
                  /\ Len(jobs[k].outcomes) = 1
                  /\ jobs[k].pending \in Range(images)
                  /\ jobs[k].pending \in dbImages
                  /\ jobs[k].pending \notin Range(jobs[k].atEntry.images)
                  /\ jobs[k].pending \notin jobs[k].atEntry.dbImages
        /\ Cardinality(JobsOf(b)) = M
        /\ Cardinality(new) = M
        /\ Cardinality({img.id : img \in new}) = M
        /\ Len(batches) = 1 => Len(images) = Cardinality(Range(images) \ new) + M

\* C12: a Batch Colorize over M selected images whose calls all return an
\* image, with Stop never clicked, ends with exactly M new history entries,
\* one per selected image, each with the prompt "Colorized: " and the prompt
\* of its source, each from a call with colorMode color and transformType
\* colorize.
C12_BatchColorize ==
    \A b \in DOMAIN batches :
        (batches[b].kind = "colorize" /\ DoneAllSucceeded(b)) =>
            OneImagePerTarget(b, <<"Colorized:">>, "color", "colorize")

\* a colorize over two images has ended with both calls answered
C12_Witness ==
    \E b \in DOMAIN batches :
        /\ batches[b].kind = "colorize"
        /\ DoneAllSucceeded(b)
        /\ Len(batches[b].targets) = 2
        /\ Cardinality(JobsOf(b)) = 2

\* C13: a Batch Decolorize over M selected images whose calls all return an
\* image, with Stop never clicked, ends with exactly M new history entries,
\* each with the prompt "Line Art: " and the prompt of its source, each from
\* a call with colorMode bw and transformType decolorize.
C13_BatchDecolorize ==
    \A b \in DOMAIN batches :
        (batches[b].kind = "decolorize" /\ DoneAllSucceeded(b)) =>
            OneImagePerTarget(b, <<"Line", "Art:">>, "bw", "decolorize")

\* a decolorize over two images has ended with both calls answered
C13_Witness ==
    \E b \in DOMAIN batches :
        /\ batches[b].kind = "decolorize"
        /\ DoneAllSucceeded(b)
        /\ Len(batches[b].targets) = 2
        /\ Cardinality(JobsOf(b)) = 2

----------------------------------------------------------------------------
(* Properties of handleClearFailedJobs *)

\* the newest n entries of the log are those of n completed clears
ClearedLast(n) ==
    /\ Len(logs) >= n
    /\ \A i \in 1..n : logs[i].message = <<"Cleared all failed jobs.">>

\* C14: when a clear of the failed queue has completed and nothing has been
\* logged since, the failed-job store and the failed list are both empty and
\* the clear has logged no error; so it is after a second clear in a row
C14_ClearIdempotent ==
    ClearedLast(1) => dbFailed = {} /\ failedJobs = <<>> /\ logs[1].type = "info"

\* two clears in a row have completed, with a queue that held something
C14_Witness ==
    /\ ClearedLast(2)
    /\ clearing = 0
    /\ dbFailed = {} /\ failedJobs = <<>>

----------------------------------------------------------------------------
(* Properties of the stop flag *)

\* C15: the stop flag is false whenever no generation operation is under
\* way: each operation sets it to false as it starts and leaves it false
\* when it has finished, however it ended
C15_StopFlagReset == ~isGenerating => ~stopGenerationRef

----------------------------------------------------------------------------
(* Properties of the jobs of a batch *)

\* job k has put a new image in the history
JobAddedImage(k) ==
    /\ jobs[k].pending \in dbImages
    /\ \E i \in DOMAIN images : images[i] = jobs[k].pending

\* job k has put a FailedJob in the failed queue
JobAddedFailedJob(k) ==
    /\ jobs[k].pending \in dbFailed
    /\ \E i \in DOMAIN failedJobs : failedJobs[i] = jobs[k].pending

\* C16: with Stop never clicked, every job a task has run to its end has
\* added one image to the history or one FailedJob to the failed queue, and
\* not both, also when the generation call returned null
C16_ExactlyOneRecord ==
    \A k \in DOMAIN jobs :
        (jobs[k].hpc = "idle" /\ stopClicks = 0) =>
            (JobAddedImage(k) /\ ~JobAddedFailedJob(k))
              \/ (JobAddedFailedJob(k) /\ ~JobAddedImage(k))

\* the generation calls dispatched and not yet returned
InFlight == {k \in DOMAIN jobs : jobs[k].hpc = "calling"}

\* C17: at no moment of a session are more than 2 generation calls in
\* flight, whatever the user clicks among what the interface offers
C17_SessionCeiling == Cardinality(InFlight) <= BATCH_CONCURRENCY

----------------------------------------------------------------------------
(* Properties of the retry of a failed job *)

\* App.tsx:75-79 and 122: the ids of allPalettes with no custom palette
PaletteIds == {"wc-1", "wc-2", "wc-3"}

\* App.tsx:312: allPalettes.find(p => p.id === config.selectedPaletteId) || null
SelectedPalette ==
    IF config.selectedPaletteId \in PaletteIds THEN config.selectedPaletteId
                                               ELSE "null"

\* App.tsx:320-337: what the generation call of the execution under way is
\* given, the palette by its id
CallParams ==
    [f \in DOMAIN args \cup {"selectedPaletteId"} |->
        IF f = "selectedPaletteId" THEN SelectedPalette ELSE args[f]]

\* C18: the generation call of a retry is given every parameter as the
\* FailedJob stored it, the selected palette included
C18_RetryReplaysStoredConfig ==
    (handler = "retry" /\ hpc = "calling") => CallParams = target.jobConfig

\* a retry has ended without an image
RetryFailedAgain == handler = "retry" /\ hpc = "idle" /\ execResult # "value"

\* C19: when the replay of a FailedJob fails again, the failed-job store
\* holds as many records as before the retry, the replayed one among them
C19_RetryFailurePersistsNothing ==
    RetryFailedAgain =>
        /\ Cardinality(dbFailed) = Cardinality(atEntry.dbFailed)
        /\ target \in dbFailed

----------------------------------------------------------------------------
(* Properties of the guards of the batch handlers *)

\* a handler is invoked in this step
Invoked == runs' = runs + 1

\* the step begins a run of tasks of one of the kinds
Begins(kinds) ==
    /\ Len(batches') = Len(batches) + 1
    /\ batches'[Len(batches')].kind \in kinds

\* no generation call is dispatched and no run of tasks begun
NothingDispatched == calls' = calls /\ jobs' = jobs /\ batches' = batches

\* the history, the failed queue and the selection are left as they are
RecordsUnchanged ==
    /\ images' = images /\ dbImages' = dbImages
    /\ failedJobs' = failedJobs /\ dbFailed' = dbFailed
    /\ selectedIds' = selectedIds

\* the state a handler was invoked in
NothingSelected == selectedIds = {}
NothingTyped == Len(batchPrompts) = 0 /\ Trim(config.prompt) = <<>>
EditPromptBlank == selectedIds # {} /\ Trim(config.prompt) = <<>>

----------------------------------------------------------------------------
(* Properties of the failed queue and its in-memory list *)

\* no handler is between two of its steps
Quiescent ==
    /\ hpc = "idle"
    /\ clearing = 0
    /\ dismissing = {}
    /\ \A b \in DOMAIN batches : batches[b].rpc = "done"
    /\ \A k \in DOMAIN jobs : jobs[k].hpc = "idle"

ListIds == {failedJobs[i].id : i \in DOMAIN failedJobs}
StoreIds == {j.id : j \in dbFailed}

\* C21: whenever no handler is between two of its steps, the ids of the
\* in-memory failed list are the ids of the failed-job store
C21_ListMirrorsStore == Quiescent => ListIds = StoreIds

\* a Retry All has ended in which one job was retried with success and one
\* failed again, with a Dismiss or a Clear completed in the session
C21_Witness ==
    /\ Quiescent
    /\ \E k \in DOMAIN jobs :
          jobs[k].handler = "retryAll" /\ jobs[k].execResult = "value"
    /\ \E k \in DOMAIN jobs :
          jobs[k].handler = "retryAll" /\ jobs[k].pending \in dbFailed
    /\ StoreIds # {}
    /\ Cardinality(StoreIds) < 2

----------------------------------------------------------------------------
(* Properties of the pacing of runConcurrentTasks *)

\* the step starts a task
StartsTask == Len(startOrder') > Len(startOrder)

\* the step begins a pacing wait
BeginsPacing == rpc' = "pacing" /\ (rpc # "pacing" \/ tidx' # tidx)

\* C22: a task is started only by the end of a pacing wait, one task per
\* wait and the task the wait was begun for, the first of the list
\* included; a wait is begun only for the next task not yet started, with
\* the stop flag just read as false; so two starts of a run are always
\* separated by a wait
C22_PacedStarts ==
    [][/\ StartsTask =>
             /\ rpc = "pacing"
             /\ startOrder' = Append(startOrder, tidx)
             /\ rpc' = "pacing" => tidx' = tidx + 1
       /\ BeginsPacing =>
             /\ ~stopGenerationRef'
             /\ tidx' = Len(startOrder') + 1]_vars

\* two tasks were started, each at the end of its wait, and the wait for the
\* third is under way while both are still running
C22_Witness ==
    /\ rpc = "pacing"
    /\ tidx = 3
    /\ startOrder = <<1, 2>>
    /\ Running = {1, 2}

----------------------------------------------------------------------------
(* Properties of the classification of errors *)

\* C23: whenever the first call of an execution throws a message that holds
\* "Requested entity was not found", "403" or "API key not valid", whatever
\* else it holds, the execution makes that one call only, waits for no
\* backoff, invalidates the key flag once, and ends with exactly one
\* FailedJob persisted
C23_PermissionDeniedAlways ==
    (outcomes # <<>> /\ IsPermissionDenied(outcomes[1].result)) =>
        /\ Len(outcomes) = 1
        /\ calls = atEntry.calls + 1
        /\ waits = <<>>
        /\ reauths = 1
        /\ hpc \in {"selectKey", "saveFailed", "idle"}
        /\ hpc = "idle" => OneFailedJobWritten(outcomes[1].result)

----------------------------------------------------------------------------
(* Properties of the retry loop of generateImageSafe *)

\* the generation calls the execution has dispatched
CallsMade == calls - atEntry.calls

\* C24: whatever the generation call returns or throws, an execution keeps
\* its retry counter within 0..3, has dispatched one call per value the
\* counter has taken (so 4 at most), dispatches a call only when every
\* earlier one has ended, and writes at most one FailedJob
C24_BoundedAttempts ==
    /\ retries \in 0..MAX_RETRIES
    /\ CallsMade \in {retries, retries + 1}
    /\ CallsMade <= MAX_RETRIES + 1
    /\ Len(outcomes) = CallsMade - (IF hpc = "calling" THEN 1 ELSE 0)
    /\ Cardinality(dbFailed \ atEntry.dbFailed) <= 1
    /\ Len(failedJobs) <= Len(atEntry.failedJobs) + 1

\* three rate-limited calls, then a fourth that returned an image
C24_Witness ==
    /\ ExecDone
    /\ retries = MAX_RETRIES
    /\ CallsMade = MAX_RETRIES + 1
    /\ Len(outcomes) = 4
    /\ outcomes[4].result = <<"ok">>
    /\ execResult = "value"

----------------------------------------------------------------------------
(* Properties of Stop during a generation *)

\* the entry handleStop writes to the activity log
StopEntry == [message |-> <<"Stopping generation sequence...">>, type |-> "warning"]

\* the entry written when a backoff wait begins
IsWaitEntry(e) == e.message[1] = "Rate Limited (429). Waiting"

\* Stop was requested after every backoff wait of the log had begun
StopRequestedInWait ==
    \E i \in DOMAIN logs :
        /\ logs[i] = StopEntry
        /\ \A j \in 1..(i - 1) : ~IsWaitEntry(logs[j])

\* C25: a Stop requested while a job is in a backoff wait leaves the wait
\* running, and when the wait ends the job dispatches no call, returns null
\* and writes neither a history entry nor a FailedJob
C25_StopDuringBackoff ==
    [][\A k \in DOMAIN jobs :
          /\ (jobs[k].hpc = "backoff" /\ stopClicks' > stopClicks) =>
                jobs'[k] = jobs[k]
          /\ (jobs[k].hpc = "backoff" /\ StopRequestedInWait
                  /\ jobs'[k].hpc # "backoff") =>
                /\ jobs'[k].hpc = "idle"
                /\ jobs'[k].execResult = "null"
                /\ calls' = calls
                /\ images' = images
                /\ dbImages' = dbImages
                /\ failedJobs' = failedJobs
                /\ dbFailed' = dbFailed]_vars

\* the result of the last generation call of job k
LastResult(j) == j.outcomes[Len(j.outcomes)].result

\* C26: Stop leaves every dispatched call in flight; whatever the flag, a
\* call that returns an image has it saved as one new history entry and a
\* call that throws a terminal error has its FailedJob saved; and the history
\* changes only by the entry of a job whose call returned an image
C26_DispatchedCallCompletes ==
    [][/\ \A k \in DOMAIN jobs :
             /\ stopClicks' > stopClicks => jobs'[k] = jobs[k]
             /\ (jobs[k].hpc = "calling" /\ jobs'[k].hpc # "calling") =>
                   /\ LastResult(jobs'[k]) = <<"ok">> => jobs'[k].hpc = "addImage"
                   /\ LastResult(jobs'[k]) = MsgOther => jobs'[k].hpc = "saveFailed"
             /\ (jobs[k].hpc = "addImage" /\ jobs'[k].hpc # "addImage") =>
                   /\ jobs[k].pending \notin dbImages
                   /\ dbImages' = dbImages \cup {jobs[k].pending}
                   /\ images' = <<jobs[k].pending>> \o images
             /\ (jobs[k].hpc = "saveFailed" /\ jobs'[k].hpc # "saveFailed") =>
                   /\ jobs[k].pending \notin dbFailed
                   /\ dbFailed' = dbFailed \cup {jobs[k].pending}
                   /\ failedJobs' = <<jobs[k].pending>> \o failedJobs
       /\ (images' # images \/ dbImages' # dbImages) =>
             \E k \in DOMAIN jobs :
                 /\ jobs[k].hpc = "addImage"
                 /\ jobs'[k].hpc = "idle"
                 /\ LastResult(jobs[k]) = <<"ok">>
                 /\ images' = <<jobs[k].pending>> \o images]_vars

\* two calls were in flight when Stop was clicked: one then threw and its
\* FailedJob was saved, the other returned an image later still and the
\* image is in the history
C26_Witness ==
    /\ stopClicks = 1
    /\ \E i \in DOMAIN logs :
          /\ logs[i] = StopEntry
          /\ i > 1
          /\ logs[i - 1].message[1] = "Generation failed:"
          /\ \A j \in 1..(i - 1) : logs[j].type # "info"
    /\ \E a, b \in DOMAIN jobs :
          /\ jobs[a].hpc = "idle"
          /\ jobs[b].hpc = "idle"
          /\ LastResult(jobs[a]) = <<"ok">>
          /\ LastResult(jobs[b]) = MsgOther
          /\ JobAddedImage(a)
          /\ JobAddedFailedJob(b)
          /\ jobs[a].pending.timestamp > jobs[b].pending.timestamp

----------------------------------------------------------------------------
(* Properties of the race of runConcurrentTasks *)

\* C27: the runner waits in the race only with the in-flight set at the
\* limit, and the first task of the set to settle, by success or failure and
\* whichever it is, sends the runner on to the next iteration at once while
\* the others are still in flight
C27_RaceToFirstSettled ==
    [][rpc = "racing" =>
          /\ Len(executing) >= concurrency
          /\ \A t \in Range(executing) : tstatus[t] = "running"
          /\ Len(settleOrder') > Len(settleOrder) =>
                /\ rpc' # "racing"
                /\ tidx' = tidx + 1
                /\ Len(executing') = Len(executing) - 1
                /\ (tidx < numTasks /\ ~stopGenerationRef) => rpc' = "pacing"]_vars

\* with two tasks in flight the later one was rejected first, and the runner
\* is in the wait before the third while the first is still running
C27_Witness ==
    /\ concurrency = 2
    /\ startOrder = <<1, 2>>
    /\ settleOrder = <<2>>
    /\ tstatus[2] = "rejected"
    /\ tstatus[1] = "running"
    /\ rpc = "pacing"
    /\ tidx = 3

----------------------------------------------------------------------------
(* Properties of the task lists of the batch handlers *)

\* the batch created by the step, if the step creates one
CreatesBatch(kind) ==
    /\ Len(batches') = Len(batches) + 1
    /\ batches'[Len(batches')].kind = kind

\* the history entries the jobs of batch b have added
AddedBy(b) == {jobs[k].pending : k \in {j \in JobsOf(b) : JobAddedImage(j)}}

\* C28: New Generation with P prompts and batch count B creates P x B tasks,
\* B in a row for each prompt in the order of the prompts; every call of the
\* batch has the prompt of its task and the list of reference images that was
\* uploaded when Generate was clicked; and when the batch has ended with Stop
\* never clicked and every call answered by an image, its jobs have added
\* exactly P x B entries to the history
C28_NewGenerationTasks ==
    [][/\ CreatesBatch("generate") =>
             LET bt == batches'[Len(batches')]
                 B == config.batchCount
             IN  /\ Len(bt.targets) = Len(PromptsToProcess) * B
                 /\ \A i \in 1..Len(bt.targets) :
                       bt.targets[i] = PromptsToProcess[((i - 1) \div B) + 1]
                 /\ bt.uploaded = uploadedImages
       /\ \A b \in DOMAIN batches :
             batches[b].kind = "generate" =>
                /\ batches'[b].targets = batches[b].targets
                /\ batches'[b].uploaded = batches[b].uploaded
                /\ \A k \in JobsOf(b) :
                      /\ jobs[k].args.prompt = batches[b].targets[jobs[k].task]
                      /\ jobs[k].args.referenceImages = batches[b].uploaded
                      /\ ~jobs[k].args.isEditing
                /\ DoneAllSucceeded(b) =>
                      /\ Cardinality(JobsOf(b)) = Len(batches[b].targets)
                      /\ \A t \in 1..Len(batches[b].targets) :
                            \E k \in JobsOf(b) : jobs[k].task = t
                      /\ Cardinality(AddedBy(b)) = Len(batches[b].targets)
                      /\ AddedBy(b) \subseteq dbImages
                      /\ Len(batches) = 1 =>
                            Len(images) =
                               Len(batches[b].targets) + Len(jobs[1].atEntry.images)
      ]_vars

\* two prompts and a batch count of 2: four tasks, the calls of all four had
\* the two uploaded images, which were cleared from the panel before the
\* batch ended, and four entries were added
C28_Witness ==
    /\ Len(batches) = 1
    /\ batches[1].kind = "generate"
    /\ DoneAllSucceeded(1)
    /\ batches[1].targets = <<<<"fox">>, <<"fox">>, <<"owl">>, <<"owl">>>>
    /\ Len(batches[1].uploaded) = 2
    /\ uploadedImages = <<>>
    /\ Cardinality(JobsOf(1)) = 4
    /\ Len(images) = 6

\* the selected entries of the history, in the order of the history
SelectedEntries ==
    SelectSeq(images, LAMBDA img : img.id \in selectedIds)

\* every job of batch b runs a task of its own, and its call has the image
\* of the task's entry as its one reference image, in editing mode
OneEditingJobPerTask(b) ==
    \A k \in JobsOf(b) :
        LET tgt == batches[b].targets[jobs[k].task]
        IN  /\ \A k2 \in JobsOf(b) : jobs[k2].task = jobs[k].task => k2 = k
            /\ jobs[k].args.referenceImages = <<tgt.url>>
            /\ jobs[k].args.isEditing

\* C29: Generate with a selection and a prompt creates one task per selected
\* entry, and the call of each task has the typed prompt, the entry's image
\* as its one reference image, isEditing true, and the resolution of the
\* entry, not that of the configuration
C29_BatchEditTasks ==
    [][/\ CreatesBatch("batchEdit") =>
             LET bt == batches'[Len(batches')]
             IN  /\ Len(bt.targets) = Cardinality(selectedIds)
                 /\ bt.targets = SelectedEntries
                 /\ \A i, j \in DOMAIN bt.targets :
                       bt.targets[i].id = bt.targets[j].id => i = j
                 /\ bt.prompt = Trim(config.prompt)
                 /\ bt.prompt # <<>>
       /\ \A b \in DOMAIN batches :
             batches[b].kind = "batchEdit" =>
                /\ batches'[b].targets = batches[b].targets
                /\ OneEditingJobPerTask(b)
                /\ \A k \in JobsOf(b) :
                      /\ jobs[k].args.prompt = batches[b].prompt
                      /\ jobs[k].args.resolution =
                            batches[b].targets[jobs[k].task].resolution
                /\ DoneAllSucceeded(b) =>
                      Cardinality(JobsOf(b)) = Len(batches[b].targets)
      ]_vars

\* a batch edit over two entries has ended, and the call for the entry
\* stored at 2k had that resolution while the configuration has another
C29_Witness ==
    \E b \in DOMAIN batches :
        /\ batches[b].kind = "batchEdit"
        /\ DoneAllSucceeded(b)
        /\ Len(batches[b].targets) = 2
        /\ \E k \in JobsOf(b) :
              /\ jobs[k].target = StoredImage
              /\ jobs[k].args.resolution = "2k"
              /\ jobs[k].args.resolution # config.resolution
              /\ JobAddedImage(k)

\* C30: Batch Upscale to R creates one task per selected entry; the call of
\* each task has resolution R, isEditing true, the entry's image as its one
\* reference image and the entry's prompt, and the history entry made from
\* its result records R and the entry's prompt
C30_BatchUpscaleTasks ==
    [][/\ CreatesBatch("upscale") =>
             LET bt == batches'[Len(batches')]
             IN  /\ Len(bt.targets) = Cardinality(selectedIds)
                 /\ bt.targets = SelectedEntries
                 /\ bt.resolution \in UpscaleTargets
       /\ \A b \in DOMAIN batches :
             batches[b].kind = "upscale" =>
                /\ batches'[b].targets = batches[b].targets
                /\ batches'[b].resolution = batches[b].resolution
                /\ OneEditingJobPerTask(b)
                /\ \A k \in JobsOf(b) :
                      LET tgt == batches[b].targets[jobs[k].task]
                      IN  /\ jobs[k].args.resolution = batches[b].resolution
                          /\ jobs[k].args.prompt = tgt.prompt
                          /\ JobAddedImage(k) =>
                                /\ jobs[k].pending.resolution = batches[b].resolution
                                /\ jobs[k].pending.prompt = tgt.prompt
                /\ DoneAllSucceeded(b) =>
                      Cardinality(JobsOf(b)) = Len(batches[b].targets)
      ]_vars

\* an upscale to 4k over two entries, stored at 2k and at 1k, has ended and
\* both new entries are recorded at 4k with the prompt of their source
C30_Witness ==
    \E b \in DOMAIN batches :
        /\ batches[b].kind = "upscale"
        /\ batches[b].resolution = "4k"
        /\ DoneAllSucceeded(b)
        /\ {jobs[k].target.resolution : k \in JobsOf(b)} = {"2k", "1k"}
        /\ \A k \in JobsOf(b) :
              /\ JobAddedImage(k)
              /\ jobs[k].pending.resolution = "4k"
              /\ jobs[k].pending.prompt = jobs[k].target.prompt

----------------------------------------------------------------------------
(* Properties of handleRetryAllFailed *)

\* the replay of task t of batch b ended with an image
ReplaySucceeded(b, t) ==
    \E k \in JobsOf(b) : jobs[k].task = t /\ jobs[k].execResult = "value"

\* C31: in the step that ends a Retry All the failed list becomes what the
\* failed-job store holds; a job whose replay returned an image is in
\* neither, and a job whose replay failed again, returned nothing or was
\* abandoned after Stop is in both
C31_RetryAllRefresh ==
    [][\A b \in DOMAIN batches :
          (batches[b].kind = "retryAll" /\ batches[b].rpc = "refreshing"
              /\ batches'[b].rpc = "done") =>
             /\ dbFailed' = dbFailed
             /\ {failedJobs'[i] : i \in DOMAIN failedJobs'} = dbFailed'
             /\ Len(failedJobs') = Cardinality(dbFailed')
             /\ \A t \in DOMAIN batches[b].targets :
                   LET job == batches[b].targets[t]
                       listed == \E i \in DOMAIN failedJobs' : failedJobs'[i] = job
                   IN  IF ReplaySucceeded(b, t)
                         THEN job \notin dbFailed' /\ ~listed
                         ELSE job \in dbFailed' /\ listed]_vars

\* a Retry All over two jobs has ended: the first was replayed with success
\* and is gone, Stop was clicked and the second, never started, is still in
\* the store and in the list
C31_Witness ==
    /\ Len(batches) = 1
    /\ batches[1].kind = "retryAll"
    /\ batches[1].rpc = "done"
    /\ stopClicks = 1
    /\ ReplaySucceeded(1, 1)
    /\ batches[1].skipped = {2}
    /\ dbFailed = {batches[1].targets[2]}
    /\ failedJobs = <<batches[1].targets[2]>>

----------------------------------------------------------------------------
(* Properties of the history and the selection *)

\* no handler is between two of its steps, those of the gallery included
QuiescentGallery == Quiescent /\ imageOps = <<>>

HistoryIds == {images[i].id : i \in DOMAIN images}
StoredImageIds == {r.id : r \in dbImages}

\* C32: whenever no handler is between two of its steps, the ids of the
\* history are the ids of the images store, however the completions of
\* tasks interleave with delete-one, delete-selected and clear-history
C32_HistoryMirrorsStore == QuiescentGallery => HistoryIds = StoredImageIds

\* the history was cleared while a batch was running, and the image the
\* batch added afterwards is the one entry of the history and of the store
C32_Witness ==
    /\ QuiescentGallery
    /\ Len(batches) = 1
    /\ batches[1].kind = "colorize"
    /\ \E i \in DOMAIN logs : logs[i].message = <<"History cleared.">>
    /\ \E k \in DOMAIN jobs :
          /\ JobAddedImage(k)
          /\ images = <<jobs[k].pending>>
          /\ dbImages = {jobs[k].pending}

----------------------------------------------------------------------------
(* Properties of the log entries of generateImageSafe *)

ActionLabels == {"Generating...", "Editing...", "Colorizing...", "Decolorizing..."}

\* the info entry of a first attempt
IsFirstAttemptEntry(e) ==
    e.type = "info" /\ \E l \in ActionLabels : e.message = <<l>>

\* the warning entry of the k-th retry
IsRetryEntry(e, k) ==
    /\ e.type = "warning"
    /\ \E l \in ActionLabels : e.message = <<"Retry", k, MAX_RETRIES, l>>

IsAttemptEntry(e) ==
    IsFirstAttemptEntry(e) \/ \E k \in 1..MAX_RETRIES : IsRetryEntry(e, k)

\* the entries the step adds to the log, newest first
AddedEntries == SubSeq(logs', 1, Len(logs') - Len(logs))

\* C33: every step keeps the entries the log had, in their order, beneath
\* the ones it adds; a step that dispatches a generation call adds, as its
\* newest entry, the info entry when it is the first call of the execution
\* and the warning "Retry k/3" when it is call k + 1, and no other step adds
\* such an entry; the step that begins a backoff wait logs the wait
C33_AttemptLog ==
    [][/\ Len(logs') >= Len(logs)
       /\ SubSeq(logs', Len(logs') - Len(logs) + 1, Len(logs')) = logs
       /\ IF calls' # calls
            THEN /\ calls' = calls + 1
                 /\ AddedEntries # <<>>
                 /\ \A i \in 2..Len(AddedEntries) : ~IsAttemptEntry(AddedEntries[i])
                 /\ LET k == (calls' - atEntry'.calls) - 1
                    IN  /\ k = retries'
                        /\ IF k = 0 THEN IsFirstAttemptEntry(AddedEntries[1])
                                     ELSE IsRetryEntry(AddedEntries[1], k)
            ELSE \A i \in DOMAIN AddedEntries : ~IsAttemptEntry(AddedEntries[i])
       /\ (hpc' = "backoff" /\ hpc # "backoff") =>
             /\ logs'[1] = [message |-> <<"Rate Limited (429). Waiting",
                                          BackoffMs(retries') \div 1000, "s...">>,
                            type |-> "warning"]
             /\ waits' = Append(waits, BackoffMs(retries'))]_vars

\* an execution of four calls has ended: the log holds its info entry and,
\* above it, Retry 1/3, 2/3 and 3/3 in that order
C33_Witness ==
    /\ ExecDone
    /\ runs = 1
    /\ CallsMade = 4
    /\ LET att == SelectSeq(logs, IsAttemptEntry)
       IN  /\ Len(att) = 4
           /\ IsRetryEntry(att[1], 3)
           /\ IsRetryEntry(att[2], 2)
           /\ IsRetryEntry(att[3], 1)
           /\ IsFirstAttemptEntry(att[4])

----------------------------------------------------------------------------
(* Termination of a batch *)

\* batch b has run to its end: its handler has returned, the busy flag is
\* off and every execution its tasks began has ended
BatchOver(b) ==
    /\ b \in DOMAIN batches
    /\ batches[b].rpc = "done"
    /\ ~isGenerating
    /\ \A k \in JobsOf(b) : jobs[k].hpc = "idle"

\* C34: when every generation call, timer and store request is answered
\* sooner or later, a batch that has begun runs to its end, whatever its
\* calls return or throw and whether Stop is clicked or not
C34_BatchTerminates ==
    \A b \in 1..MaxRuns : (b \in DOMAIN batches) ~> BatchOver(b)

\* Retry All has replayed its job, the read of the store that follows the
\* run has failed, and nothing is under way any more: the busy flag is still
\* set and no step of the program is left to reset it
C34_RetryAllStuck ==
    /\ \E b \in DOMAIN batches :
          /\ batches[b].kind = "retryAll"
          /\ batches[b].rpc = "threw"
          /\ \E k \in JobsOf(b) : jobs[k].outcomes # <<>>
    /\ \A k \in DOMAIN jobs : jobs[k].hpc = "idle"
    /\ isGenerating
    /\ ~ENABLED (JobCallSettles \/ TimerFires \/ StoreAnswers
                   \/ RetryAllRefreshFails)

\* the same without failing reads of the store: a batch of two tasks is over
\* without a click on Stop; one of its executions waited twice for the rate
\* limit and then called a third time
C34_Terminated ==
    /\ BatchOver(1)
    /\ stopClicks = 0
    /\ Len(batches[1].targets) = 2
    /\ Cardinality(JobsOf(1)) = 2
    /\ \E k \in JobsOf(1) :
          /\ jobs[k].waits = <<10000, 20000>>
          /\ Len(jobs[k].outcomes) = 3

\* C35: every selected id is the id of an entry of the history
C35_SelectionWithinHistory == selectedIds \subseteq HistoryIds

\* an entry was ticked and then deleted with its own bin button, which leaves
\* the selection as it was; Generate then went into Batch Edit with the stale
\* id, built an empty list of targets and finished without a single call
C35_BatchEditOfNothing ==
    \E b \in DOMAIN batches :
        /\ batches[b].kind = "batchEdit"
        /\ batches[b].targets = <<>>
        /\ JobsOf(b) = {}
        /\ images # <<>>

\* C36: the resolution written on a new entry of the history is the
\* resolution that was given to the generation call that produced it
C36_RecordedResolutionIsCalled ==
    \A k \in DOMAIN jobs :
        jobs[k].execResult = "value" =>
            jobs[k].pending.resolution = jobs[k].args.resolution

\* a task of Batch Edit called with the resolution of its source image, and
\* the entry it added to the history carries the resolution of the side panel
C36_BatchEditRecordsPanelResolution ==
    \E k \in DOMAIN jobs :
        /\ jobs[k].handler = "batchEdit"
        /\ jobs[k].hpc = "idle"
        /\ jobs[k].execResult = "value"
        /\ jobs[k].args.resolution = jobs[k].target.resolution
        /\ jobs[k].pending.resolution = config.resolution
        /\ jobs[k].pending.resolution # jobs[k].args.resolution
        /\ \E i \in DOMAIN images : images[i] = jobs[k].pending

\* job k of the next state is making a generation call that it was not
\* making in this state
CallDispatched(k) ==
    /\ jobs'[k].hpc = "calling"
    /\ k \in DOMAIN jobs => jobs[k].hpc # "calling"

\* Stop was clicked while the first batch of the session was running, and
\* that batch has not finished
FirstBatchStopped ==
    /\ stopClicks > 0
    /\ 1 \in DOMAIN batches
    /\ batches[1].rpc # "done"

\* C37: from the click on Stop until it has finished, the batch that was
\* running dispatches no generation call, whatever else the user starts
C37_StoppedBatchDispatchesNothing ==
    [][FirstBatchStopped =>
          \A k \in DOMAIN jobs' : jobs'[k].batch = 1 => ~CallDispatched(k)]_vars

\* the first batch was stopped before its second task began, a second batch
\* was started, and the second task of the first batch is making its call
C37_StoppedBatchCallsAgain ==
    /\ FirstBatchStopped
    /\ Len(batches) = 2
    /\ batches[1].kind = "colorize"
    /\ batches[2].kind = "upscale"
    /\ \E k \in JobsOf(1) :
          /\ jobs[k].task = 2
          /\ jobs[k].hpc = "calling"
          /\ \E i, j \in DOMAIN logs :
                /\ i < j
                /\ logs[j] = StopEntry
                /\ logs[i] = AttemptEntry(0, ActionLabel(jobs[k].args))

\* a generation call of a task is in flight
CallInFlight == \E k \in DOMAIN jobs : jobs[k].hpc = "calling"

\* the runner of some batch has not yet started all its tasks
TasksToStart ==
    \E b \in DOMAIN batches :
        /\ batches[b].rpc \in {"pacing", "racing"}
        /\ batches[b].tidx <= Len(batches[b].targets)

\* C38: the busy flag is set whenever a generation call is in flight or a
\* runner still has tasks to start
C38_BusyWhileWorking == (CallInFlight \/ TasksToStart) => isGenerating

\* two batches overlap and Stop was never clicked; the first has finished
\* and reset the flag while a call of the second is still in flight
C38_IdleFlagWithCallInFlight ==
    /\ Len(batches) = 2
    /\ stopClicks = 0
    /\ batches[1].rpc = "done"
    /\ \E k \in JobsOf(2) : jobs[k].hpc = "calling"
    /\ ~isGenerating

\* C39: while the key-present flag is down, no generation call is dispatched
C39_NoCallWithoutKey ==
    [][~hasApiKey => \A k \in DOMAIN jobs' : ~CallDispatched(k)]_vars

\* the first task of a batch had its call rejected for the key, the flag is
\* down, no Stop was requested, and the second task of the same batch is
\* making its call
C39_NextTaskCallsWithRejectedKey ==
    /\ ~hasApiKey
    /\ stopClicks = 0
    /\ Len(batches) = 1
    /\ \E k, l \in JobsOf(1) :
          /\ jobs[k].task = 1
          /\ jobs[k].hpc = "idle"
          /\ jobs[k].outcomes = <<[retries |-> 0, result |-> Msg403]>>
          /\ jobs[l].task = 2
          /\ jobs[l].hpc = "calling"

====
